---- MODULE Spec2Model ----
(***************************************************************************)
(* Model of the risk-intake bot (src/withnotifications.py): the per-user   *)
(* draft kept in context.user_data, the prompt most recently rendered to   *)
(* each user, the handlers registered in main(), and the risks table.      *)
(*                                                                         *)
(* Texts are sequences of one-character strings, so that the regular       *)
(* expression of parse_three_values and Python's int() are computed on     *)
(* the characters.  A key of user_data holds <<>> when the key is absent   *)
(* and <<v>> when it is present with value v.  Prompt texts and button     *)
(* labels are Latin transcriptions of the Russian originals; two rendered  *)
(* texts are equal in the model exactly when they are equal in the source. *)
(***************************************************************************)
EXTENDS Integers, Sequences, FiniteSets, TLC

VARIABLES user_data, screen, risks, subscriptions, navs,
          db_lock, pc, lock_log,
          additional_mitigations,
          today, sent, job

vars == <<user_data, screen, risks, subscriptions, navs, db_lock, pc, lock_log,
          additional_mitigations, today, sent, job>>

\* the critical section of db_connection
lock_vars == <<db_lock, pc, lock_log>>

\* the daily reminder
reminder_vars == <<today, sent, job>>

\* what the handlers of the submission workflow leave alone
others == <<lock_vars, additional_mitigations, reminder_vars>>

\* the job queue before send_daily_reminder has run: the number of runs
\* started, the subscribers the run found, the outcomes of those it has
\* been through, and whether a run is under way
NoJob == [run |-> 0, batch |-> <<>>, done |-> <<>>, active |-> FALSE]

----------------------------------------------------------------------------
(* Bounds of the exploration *)

\* presses of a back button within a submission (Spec)
MaxBacks == 1

\* renderings of the main menu, by /start or by the button back_to_menu
\* (SpecRestart)
MaxMenus == 2

\* rows of the risks table: no input is sent once the table holds this many
MaxRisks == 1

Users == {1}

----------------------------------------------------------------------------
(* Program constants *)

PHASES == << <<"1">>, <<"2">>, <<"3">>, <<"4">>, <<"5">>, <<"Pescovoe">>, <<"KPRA">> >>

OBJECTS == << <<"Skvazhiny">>, <<"Kustovye ploshchadki">>, <<"Ploshchadochnye obekty">>,
              <<"Lineynaya chast">>, <<"Drugoe">> >>

CATEGORIES == << <<"Proektnoe upravlenie">>, <<"Stoimostnoy inzhiniring">>, <<"GiR">>,
                 <<"Operacionnaya deyatelnost">>, <<"Stroitelstvo">>, <<"Zakupki">>,
                 <<"Inzhiniring">>, <<"Burenie">>, <<"PB">> >>

\* a table of the upper ends of the bands of the probability scale
PROBABILITY_MAPPING_by_threshold ==
    [k \in 1..5 |-> CASE k = 1 -> 10 [] k = 2 -> 20 [] k = 3 -> 50 [] k = 4 -> 75 [] k = 5 -> 100]

PROBABILITY_MAPPING == [k \in 1..5 |-> CASE k = 1 -> 10 [] k = 2 -> 15 [] k = 3 -> 27
                                          [] k = 4 -> 47 [] k = 5 -> 60]

----------------------------------------------------------------------------
(* Scoring *)

\* a cost table whose thresholds fall in the lower bucket
get_cost_score_closed(cost_impact) ==
    IF cost_impact <= 100 THEN 1
    ELSE IF cost_impact <= 200 THEN 2
    ELSE IF cost_impact <= 500 THEN 3
    ELSE IF cost_impact <= 1000 THEN 4
    ELSE 5

get_cost_score(cost_impact) ==
    IF cost_impact < 100 THEN 1
    ELSE IF cost_impact < 200 THEN 2
    ELSE IF cost_impact < 500 THEN 3
    ELSE IF cost_impact < 1000 THEN 4
    ELSE 5

get_schedule_score(schedule_impact) ==
    IF schedule_impact < 14 THEN 1
    ELSE IF schedule_impact < 45 THEN 2
    ELSE IF schedule_impact < 90 THEN 3
    ELSE IF schedule_impact < 150 THEN 4
    ELSE 5

\* a probability table whose thresholds fall in the lower bucket
get_probability_score_closed(probability) ==
    IF probability <= 10 THEN 1
    ELSE IF probability <= 20 THEN 2
    ELSE IF probability <= 50 THEN 3
    ELSE IF probability <= 75 THEN 4
    ELSE 5

get_probability_score(probability) ==
    IF probability < 10 THEN 1
    ELSE IF probability < 20 THEN 2
    ELSE IF probability < 50 THEN 3
    ELSE IF probability < 75 THEN 4
    ELSE 5

----------------------------------------------------------------------------
(* Text: the characters of a message, re.findall(r'-?\d+'), int() *)

Digits == {"0", "1", "2", "3", "4", "5", "6", "7", "8", "9"}

Whitespace == {" "}

DigitVal(c) ==
    CASE c = "0" -> 0 [] c = "1" -> 1 [] c = "2" -> 2 [] c = "3" -> 3 [] c = "4" -> 4
      [] c = "5" -> 5 [] c = "6" -> 6 [] c = "7" -> 7 [] c = "8" -> 8 [] c = "9" -> 9

\* the value of a non-empty run of decimal digits
RECURSIVE DecimalValue(_)
DecimalValue(ds) ==
    IF Len(ds) = 0 THEN 0
    ELSE 10 * DecimalValue(SubSeq(ds, 1, Len(ds) - 1)) + DigitVal(ds[Len(ds)])

\* the first position at or after i of text that holds no digit
RECURSIVE DigitsEnd(_, _)
DigitsEnd(text, i) ==
    IF i <= Len(text) /\ text[i] \in Digits THEN DigitsEnd(text, i + 1) ELSE i

\* re.findall(r'-?\d+', text) from position i on: the matched numerals, left
\* to right.  The position the search goes on from is computed once, as the
\* element of a singleton set.
RECURSIVE findall(_, _)
findall(text, i) ==
    IF i > Len(text) THEN <<>>
    ELSE IF text[i] = "-" /\ i + 1 <= Len(text) /\ text[i + 1] \in Digits
         THEN CHOOSE found \in {<<SubSeq(text, i, j - 1)>> \o findall(text, j) :
                                  j \in {DigitsEnd(text, i + 1)}} : TRUE
    ELSE IF text[i] \in Digits
         THEN CHOOSE found \in {<<SubSeq(text, i, j - 1)>> \o findall(text, j) :
                                  j \in {DigitsEnd(text, i)}} : TRUE
    ELSE CHOOSE found \in {findall(text, j) : j \in {i + 1}} : TRUE

\* str.strip() for the whitespace of the modelled alphabet
RECURSIVE strip(_)
strip(text) ==
    IF Len(text) > 0 /\ text[1] \in Whitespace THEN strip(Tail(text))
    ELSE IF Len(text) > 0 /\ text[Len(text)] \in Whitespace THEN strip(SubSeq(text, 1, Len(text) - 1))
    ELSE text

\* int(text): <<n>> when text is an optionally signed decimal numeral with
\* optional surrounding whitespace and single underscores between its
\* digits, <<>> when int() raises ValueError
py_int(text) ==
    LET int_of(s) ==
            LET signed == Len(s) > 0 /\ s[1] \in {"-", "+"}
                ds == IF signed THEN Tail(s) ELSE s
                numeral == /\ Len(ds) > 0
                           /\ ds[1] \in Digits
                           /\ ds[Len(ds)] \in Digits
                           /\ \A i \in 1..Len(ds) : ds[i] \in Digits \cup {"_"}
                           /\ \A i \in 1..(Len(ds) - 1) : ~(ds[i] = "_" /\ ds[i + 1] = "_")
            IN  IF numeral
                THEN <<(IF signed /\ s[1] = "-" THEN -1 ELSE 1)
                        * DecimalValue(SelectSeq(ds, LAMBDA c : c \in Digits))>>
                ELSE <<>>
    IN  CHOOSE n \in {int_of(s) : s \in {strip(text)}} : TRUE

\* the mutant: the last three numbers instead of the first three
parse_three_values_last(text) ==
    LET numbers == findall(text, 1)
        n == Len(numbers)
    IN  IF n >= 3
        THEN << <<py_int(numbers[n - 2])[1], py_int(numbers[n - 1])[1], py_int(numbers[n])[1]>> >>
        ELSE <<>>

\* parse_three_values: << <<a, b, c>> >>, or <<>> when it raises ValueError
parse_three_values(text) ==
    CHOOSE parsed \in
        {IF Len(numbers) >= 3
         THEN << <<py_int(numbers[1])[1], py_int(numbers[2])[1], py_int(numbers[3])[1]>> >>
         ELSE <<>> : numbers \in {findall(text, 1)}} : TRUE

----------------------------------------------------------------------------
(* context.user_data: the keys the handlers use *)

TextKeys == {"phase", "object", "category", "description", "timeline", "mitigation",
             "expected_result"}

ScheduleKeys == {"impact_schedule_min", "impact_schedule_most_likely", "impact_schedule_max"}

CostKeys == {"impact_cost_min", "impact_cost_most_likely", "impact_cost_max"}

ScheduleReKeys == {"impact_schedule_min_re", "impact_schedule_most_likely_re",
                   "impact_schedule_max_re"}

CostReKeys == {"impact_cost_min_re", "impact_cost_most_likely_re", "impact_cost_max_re"}

FlagKeys == {"needs_schedule_evaluation", "needs_cost_evaluation", "reevaluation_needed",
             "needs_schedule_evaluation_re", "needs_cost_evaluation_re"}

DraftKeys == TextKeys \cup ScheduleKeys \cup CostKeys \cup ScheduleReKeys \cup CostReKeys
             \cup FlagKeys \cup {"probability", "probability_re", "risk_score"}

\* the awaiting_* markers, in the order handle_text tests them
AwaitingOrder == <<"awaiting_custom_phase", "awaiting_custom_object", "awaiting_custom_category",
                   "awaiting_description", "awaiting_schedule_values", "awaiting_cost_values",
                   "awaiting_custom_probability", "awaiting_timeline", "awaiting_mitigation",
                   "awaiting_expected_result", "awaiting_schedule_values_re",
                   "awaiting_cost_values_re", "awaiting_custom_probability_re",
                   "awaiting_mitigation_for_existing_risk",
                   "awaiting_expected_result_for_mitigation">>

AwaitingKeys == {AwaitingOrder[i] : i \in DOMAIN AwaitingOrder}

\* the keys of the supplementary mitigation being added
MitigationKeys == {"adding_mitigation_to_risk", "new_mitigation"}

\* the filter and the page of the list of stored risks
ViewKeys == {"selected_view_phase", "view_risks_page"}

Keys == DraftKeys \cup AwaitingKeys \cup MitigationKeys \cup ViewKeys

EmptyData == [k \in Keys |-> <<>>]

\* user_data[key] = value
Put(d, key, value) == [d EXCEPT ![key] = <<value>>]

\* user_data.pop(key, None)
Pop(d, key) == [d EXCEPT ![key] = <<>>]

PopAll(d, keys) == [k \in Keys |-> IF k \in keys THEN <<>> ELSE d[k]]

\* user_data.get(key, default)
Get(d, key, default) == IF d[key] = <<>> THEN default ELSE d[key][1]

\* "if user_data.get(key):" for a marker that is absent, False or True
Truthy(d, key) == d[key] = <<TRUE>>

PutTriple(d, kmin, kml, kmax, t) == Put(Put(Put(d, kmin, t[1]), kml, t[2]), kmax, t[3])

----------------------------------------------------------------------------
(* Rendered prompts: a text and the ordered buttons (label, token).  A     *)
(* token is callback_data split into the part the handler patterns of      *)
(* main() match (h) and the argument that follows it (a).                  *)

Btn(label, h, a) == [label |-> label, tok |-> [h |-> h, a |-> a]]

Prompt(id, arg, options) == [text |-> [id |-> id, arg |-> arg], options |-> options]

NoPrompt == Prompt("none", <<>>, <<>>)

create_back_keyboard(back_data) ==
    << Btn(<<"Vernutsya na predydushchiy shag">>, "back_to_", <<back_data>>) >>

menu_keyboard(subscribed) ==
    << Btn(<<"Soobshchit risk">>, "submit_risk", <<>>),
       Btn(<<"Prosmotret riski/meropriyatiya">>, "view_risks_list", <<>>),
       Btn(<<"Otchet po riskam">>, "report", <<>>),
       Btn(<<"Eksport v Excel">>, "export_excel", <<>>),
       Btn(IF subscribed THEN <<"Otpisatsya">> ELSE <<"Podpisatsya">>, "toggle_subscription", <<>>) >>

phase_keyboard ==
    [i \in 1..Len(PHASES) |-> Btn(PHASES[i], "phase_", PHASES[i])]
    \o << Btn(<<"Vvesti svoyu fazu">>, "custom_phase", <<>>),
          Btn(<<"Vernutsya v menyu">>, "back_to_", <<"menu">>) >>

object_keyboard ==
    [i \in 1..Len(OBJECTS) |-> Btn(OBJECTS[i], "object_", OBJECTS[i])]
    \o << Btn(<<"Vvesti svoy obekt">>, "custom_object", <<>>),
          Btn(<<"Vernutsya k faze">>, "back_to_", <<"phase_selection">>) >>

category_keyboard ==
    [i \in 1..Len(CATEGORIES) |-> Btn(CATEGORIES[i], "cat_", CATEGORIES[i])]
    \o << Btn(<<"Vvesti svoe funkcionalnoe napravlenie riska">>, "custom_category", <<>>),
          Btn(<<"Vernutsya k obektu">>, "back_to_", <<"object_selection">>) >>

schedule_keyboard ==
    << Btn(<<"Ne vliyaet na sroki">>, "no_impact_schedule", <<>>),
       Btn(<<"Ocenit vliyanie na sroki">>, "evaluate_schedule_impact", <<>>),
       Btn(<<"Zaprosit ocenku (Poveshchenko S., Girenko V.)">>, "request_schedule_evaluation", <<>>),
       Btn(<<"Vernutsya k opisaniyu">>, "back_to_", <<"description">>) >>

cost_keyboard ==
    << Btn(<<"Ne vliyaet na stoimost">>, "no_impact_cost", <<>>),
       Btn(<<"Ocenit vliyanie na stoimost">>, "evaluate_cost_impact", <<>>),
       Btn(<<"Zaprosit ocenku (Davydova E., Borisov A.)">>, "request_cost_evaluation", <<>>),
       Btn(<<"Vernutsya k srokam">>, "back_to_", <<"schedule_impact">>) >>

\* the probability buttons; fourth is the label of level 4, which differs
\* between the forward handlers ("50-75%") and handle_back ("60-75%")
probability_keyboard(fourth) ==
    << Btn(<<"<10%">>, "prob_", <<"1">>),
       Btn(<<"10-20%">>, "prob_", <<"2">>),
       Btn(<<"20-50%">>, "prob_", <<"3">>),
       Btn(<<fourth>>, "prob_", <<"4">>),
       Btn(<<">75%">>, "prob_", <<"5">>),
       Btn(<<"Vvesti svoyu veroyatnost">>, "custom_probability", <<>>),
       Btn(<<"Vernutsya k stoimosti">>, "back_to_", <<"cost_impact">>) >>

mitigation_choice_keyboard ==
    << Btn(<<"Dobavit meropriyatie po mitigacii i vnesti ocenku">>,
           "add_mitigation_with_evaluation", <<>>),
       Btn(<<"Zapolnit meropriyatie po mitigacii bez pereocenki">>,
           "add_mitigation_without_evaluation", <<>>),
       Btn(<<"Vernutsya k sroku">>, "back_to_", <<"timeline">>) >>

schedule_re_keyboard ==
    << Btn(<<"Ne vliyaet na sroki">>, "no_impact_schedule_re", <<>>),
       Btn(<<"Ocenit vliyanie na sroki">>, "evaluate_schedule_impact_re", <<>>),
       Btn(<<"Zaprosit ocenku (Poveshchenko S., Girenko V.)">>, "request_schedule_evaluation_re", <<>>),
       Btn(<<"Vernutsya k vyboru">>, "back_to_", <<"mitigation_result">>) >>

cost_re_keyboard ==
    << Btn(<<"Ne vliyaet na stoimost">>, "no_impact_cost_re", <<>>),
       Btn(<<"Ocenit vliyanie na stoimost">>, "evaluate_cost_impact_re", <<>>),
       Btn(<<"Zaprosit ocenku (Davydova E., Borisov A.)">>, "request_cost_evaluation_re", <<>>),
       Btn(<<"Vernutsya k srokam">>, "back_to_", <<"schedule_impact_re">>) >>

probability_re_keyboard ==
    << Btn(<<"<10%">>, "prob_re_", <<"1">>),
       Btn(<<"10-20%">>, "prob_re_", <<"2">>),
       Btn(<<"20-50%">>, "prob_re_", <<"3">>),
       Btn(<<"50-75%">>, "prob_re_", <<"4">>),
       Btn(<<">75%">>, "prob_re_", <<"5">>),
       Btn(<<"Vvesti svoyu veroyatnost">>, "custom_probability_re", <<>>),
       Btn(<<"Vernutsya k stoimosti">>, "back_to_", <<"cost_impact_re">>) >>

to_menu_keyboard == << Btn(<<"V glavnoe menyu">>, "back_to_", <<"menu">>) >>

(* The prompts.  The id names the text of the source; arg is the value     *)
(* interpolated into it, <<>> standing for Python's None.                  *)

phase_prompt == Prompt("Vyberite fazu proekta ili vvedite svoyu:", <<>>, phase_keyboard)

object_prompt(phase) ==
    Prompt("Faza: {phase} Vyberite obekt ili vvedite svoy:", phase, object_keyboard)

\* ending is "svoyu" in handle_custom_object and "svoy" in choose_object and handle_back
category_prompt(obj, ending) ==
    Prompt(IF ending = "svoyu"
           THEN "Obekt: {obj} Vyberite funkcionalnoe napravlenie riska ili vvedite svoyu:"
           ELSE "Obekt: {obj} Vyberite funkcionalnoe napravlenie riska ili vvedite svoy:",
           obj, category_keyboard)

description_prompt(cat) ==
    Prompt("Kategoriya: {cat} Opishite risk:", cat, create_back_keyboard("category_selection"))

schedule_prompt(with_unit) ==
    Prompt(IF with_unit
           THEN "Vliyanie na sroki (ocenka bez meropriyatiy, v dnyah): Vyberite variant:"
           ELSE "Vliyanie na sroki (ocenka bez meropriyatiy): Vyberite variant:",
           <<>>, schedule_keyboard)

cost_prompt(with_unit) ==
    Prompt(IF with_unit
           THEN "Vliyanie na stoimost (ocenka bez meropriyatiy, v mln.rub.): Vyberite variant:"
           ELSE "Vliyanie na stoimost (ocenka bez meropriyatiy): Vyberite variant:",
           <<>>, cost_keyboard)

probability_prompt(fourth) ==
    Prompt("Ocenite veroyatnost vozniknoveniya riska ili vvedite svoyu:", <<>>,
           probability_keyboard(fourth))

timeline_prompt ==
    Prompt("Ukazhite primernyy period realizacii riska:", <<>>, create_back_keyboard("probability"))

mitigation_choice_prompt == Prompt("Vyberite deystvie:", <<>>, mitigation_choice_keyboard)

mitigation_prompt ==
    Prompt("Vvedite meropriyatie po mitigacii riska:", <<>>,
           create_back_keyboard("mitigation_choice"))

expected_result_prompt ==
    Prompt("Ozhidaemyy rezultat ot meropriyatiya (opishite tekstom):", <<>>,
           create_back_keyboard("mitigation"))

schedule_re_prompt(with_unit) ==
    Prompt(IF with_unit
           THEN "Vliyanie na sroki (ocenka s meropriyatiyami, v dnyah): Vyberite variant:"
           ELSE "Vliyanie na sroki (ocenka s meropriyatiyami): Vyberite variant:",
           <<>>, schedule_re_keyboard)

cost_re_prompt ==
    Prompt("Vliyanie na stoimost (ocenka s meropriyatiyami): Vyberite variant:", <<>>,
           cost_re_keyboard)

probability_re_prompt ==
    Prompt("Ocenite veroyatnost vozniknoveniya riska posle meropriyatiy ili vvedite svoyu:",
           <<>>, probability_re_keyboard)

\* the two rejections of a triple: the ordering error and the ValueError
order_error_prompt(back_data) ==
    Prompt("Oshibka: Znacheniya dolzhny byt v poryadke vozrastaniya. Vvedite znacheniya snova:",
           <<>>, create_back_keyboard(back_data))

format_error_prompt(back_data) ==
    Prompt("Nevernyy format. Vvedite tri chisla. Pozhaluysta, vvedite tri chisla:",
           <<>>, create_back_keyboard(back_data))

range_error_prompt(back_data) ==
    Prompt("Pozhaluysta, vvedite chislo ot 0 do 100:", <<>>, create_back_keyboard(back_data))

custom_phase_prompt ==
    Prompt("Vvedite nazvanie fazy proekta:", <<>>, create_back_keyboard("phase_selection"))

custom_object_prompt ==
    Prompt("Vvedite nazvanie obekta:", <<>>, create_back_keyboard("object_selection"))

custom_category_prompt ==
    Prompt("Vvedite funkcionalnoe napravlenie riska:", <<>>,
           create_back_keyboard("category_selection"))

schedule_values_prompt ==
    Prompt("Vliyanie na sroki (ocenka bez meropriyatiy): Vvedite min, naibolee veroyatnoe i maks (v dnyah):",
           <<>>, create_back_keyboard("schedule_impact"))

cost_values_prompt ==
    Prompt("Vliyanie na stoimost (ocenka bez meropriyatiy): Vvedite min, naibolee veroyatnoe i maks (v mln. rub.):",
           <<>>, create_back_keyboard("cost_impact"))

custom_probability_prompt ==
    Prompt("Vvedite ocenku veroyatnosti (v procentah, ot 0 do 100):", <<>>,
           create_back_keyboard("probability"))

schedule_values_re_prompt ==
    Prompt("Vliyanie na sroki (ocenka s meropriyatiyami): Vvedite min, naibolee veroyatnoe i maks (v dnyah):",
           <<>>, create_back_keyboard("schedule_impact_re"))

cost_values_re_prompt ==
    Prompt("Vliyanie na stoimost (ocenka s meropriyatiyami): Vvedite min, naibolee veroyatnoe i maks (v mln. rub.):",
           <<>>, create_back_keyboard("cost_impact_re"))

custom_probability_re_prompt ==
    Prompt("Vvedite ocenku veroyatnosti posle meropriyatiy (v procentah, ot 0 do 100):", <<>>,
           create_back_keyboard("probability_re"))

\* the summary of the saved risk; its figures are those of the row just inserted
saved_prompt == Prompt("Risk uspeshno sohranen!", <<>>, to_menu_keyboard)

save_failed_prompt ==
    Prompt("Proizoshla oshibka pri sohranenii riska. Pozhaluysta, poprobuyte snova.", <<>>,
           create_back_keyboard("menu"))

not_understood_prompt ==
    Prompt("Ne ponimayu vashe soobshchenie. Vyberite deystvie iz menyu:", <<>>, to_menu_keyboard)

\* the text differs between the reply to /start and the edit of a callback's message
welcome_prompt(via_message, subscribed) ==
    Prompt(IF via_message THEN "Dobro pozhalovat v Ezhednevnik riskov proekta!"
                          ELSE "Dobro pozhalov v Ezhednevnik riskov proekta!",
           <<>>, menu_keyboard(subscribed))

----------------------------------------------------------------------------
(* Inputs *)

Words == { <<"t", "e", "s", "t">> }

NumericTexts ==
    { <<"1", "0", ",", " ", "2", "0", ",", " ", "3", "0">>,
      <<"1", "0", " ", "2", "0", " ", "3", "0", " ", "5">>,
      <<"5", " ", "3", " ", "9">>,
      <<"o", "n", "l", "y", " ", "o", "n", "e", " ", "n", "u", "m", "b", "e", "r", " ", "4">>,
      <<"8", "0">>,
      <<"1", "5", "0">>,
      <<"-", "5">> }

\* the list buttons and probability bands a user presses
PhasePicks == { <<"3">> }

ObjectPicks == { <<"Skvazhiny">> }

CategoryPicks == { <<"Burenie">> }

LevelPicks == { <<"1">> }

\* the outcomes of the INSERT of save_risk: committed, or an exception
DbOutcomes == {TRUE, FALSE}

NumericMarkers == {"awaiting_schedule_values", "awaiting_cost_values",
                   "awaiting_custom_probability", "awaiting_schedule_values_re",
                   "awaiting_cost_values_re", "awaiting_custom_probability_re"}

\* the if/elif chain of handle_text: the first marker that is set, or "none"
TextRoute(d) ==
    IF \E i \in DOMAIN AwaitingOrder : Truthy(d, AwaitingOrder[i])
    THEN AwaitingOrder[CHOOSE i \in DOMAIN AwaitingOrder :
                          /\ Truthy(d, AwaitingOrder[i])
                          /\ \A j \in 1..(i - 1) : ~Truthy(d, AwaitingOrder[j])]
    ELSE "none"

\* the branch of handle_text for marker is the one taken
Routed(d, marker) == Truthy(d, marker) /\ TextRoute(d) = marker

Active == Len(risks) < MaxRisks

\* the texts a user sends: numbers and words where a handler reads numbers,
\* words where the text is stored as it is
TextOffers(u) ==
    IF ~Active THEN {}
    ELSE IF TextRoute(user_data[u]) \in NumericMarkers THEN NumericTexts \cup Words
    ELSE Words

Picked(tok) ==
    /\ tok.h = "phase_" => tok.a \in PhasePicks
    /\ tok.h = "object_" => tok.a \in ObjectPicks
    /\ tok.h = "cat_" => tok.a \in CategoryPicks
    /\ tok.h \in {"prob_", "prob_re_"} => tok.a \in LevelPicks

Offered(u) == {screen[u].options[i].tok : i \in DOMAIN screen[u].options}

\* Spec: the user opens the bot with /start once, presses the buttons of the
\* most recently rendered prompt, and goes back at most MaxBacks times, never
\* to the menu
Commands(u) == IF Active /\ screen[u] = NoPrompt THEN {"/start"} ELSE {}

Pressable(u) ==
    IF ~Active THEN {}
    ELSE {tok \in Offered(u) :
            /\ Picked(tok)
            /\ tok.h = "back_to_" => (tok.a # <<"menu">> /\ navs < 1 + MaxBacks)}

\* SpecRestart: the user returns to the menu, by /start at any time or by
\* back_to_menu, and starts again; no other back button is pressed and no
\* custom phase, object or category is typed
CommandsRestart(u) == IF Active /\ navs < MaxMenus THEN {"/start"} ELSE {}

PressableRestart(u) ==
    IF ~Active THEN {}
    ELSE {tok \in Offered(u) :
            /\ Picked(tok)
            /\ tok.h \notin {"custom_phase", "custom_object", "custom_category"}
            /\ tok.h = "back_to_" => (tok.a = <<"menu">> /\ navs < MaxMenus)}

----
(* State changes shared by the handlers *)

\* one dictionary for all users in place of context.user_data
Render_shared(u, d, p) ==
    /\ user_data' = [v \in DOMAIN user_data |-> d]
    /\ screen' = [screen EXCEPT ![u] = p]

Render(u, d, p) ==
    /\ user_data' = [user_data EXCEPT ![u] = d]
    /\ screen' = [screen EXCEPT ![u] = p]

Reply(u, d, p) ==
    /\ Render(u, d, p)
    /\ UNCHANGED <<risks, subscriptions, navs, others>>

\* INSERT OR IGNORE INTO subscriptions (user_id, is_subscribed) VALUES (?, 1)
start_subscriptions(u) ==
    IF subscriptions[u] = <<>>
    THEN [subscriptions EXCEPT ![u] = <<[is_subscribed |-> 1, last_notification |-> <<>>]>>]
    ELSE subscriptions

is_subscribed(subs, u) == subs[u] # <<>> /\ subs[u][1].is_subscribed = 1

----------------------------------------------------------------------------
(* save_risk *)

\* the mutant: the score taken from the post-mitigation figures
risk_score_re(d) ==
    get_cost_score(Get(d, "impact_cost_most_likely_re", 0))
    + get_schedule_score(Get(d, "impact_schedule_most_likely_re", 0))
    + get_probability_score(Get(d, "probability_re", 0))

\* a score in which the probability scale counts twice
risk_score_weighted(d) ==
    get_cost_score(Get(d, "impact_cost_most_likely", 0))
    + get_schedule_score(Get(d, "impact_schedule_most_likely", 0))
    + 2 * get_probability_score(Get(d, "probability", 0))

risk_score(d) ==
    get_cost_score(Get(d, "impact_cost_most_likely", 0))
    + get_schedule_score(Get(d, "impact_schedule_most_likely", 0))
    + get_probability_score(Get(d, "probability", 0))

IntColumns == ScheduleKeys \cup CostKeys \cup ScheduleReKeys \cup CostReKeys
              \cup (FlagKeys \cup {"probability", "probability_re"})

Columns == {"id", "user_id", "risk_score"} \cup TextKeys \cup IntColumns

\* the row of the INSERT: a text column holds <<>> for NULL
risk_row(id, u, d, score) ==
    [c \in Columns |->
        CASE c = "id" -> id
          [] c = "user_id" -> u
          [] c = "risk_score" -> score
          [] c \in TextKeys -> d[c]
          [] OTHER -> Get(d, c, 0)]

\* a table in which the INSERT replaces what is stored
insert_row_replacing(table, row) == <<row>>

\* INSERT INTO ... and conn.commit(): the table with the row added
insert_row(table, row) == Append(table, row)

\* a save_risk that drops the draft when the INSERT fails
save_risk_forgetful(u, d, ok, is_callback) ==
    LET score == risk_score(d)
        d2 == IF ok THEN Put(d, "risk_score", score) ELSE EmptyData
    IN  /\ risks' = IF ok THEN insert_row(risks, risk_row(Len(risks) + 1, u, d2, score))
                 ELSE risks
        /\ Render(u, d2, IF ok THEN saved_prompt
                         ELSE IF is_callback THEN screen[u]
                         ELSE save_failed_prompt)
        /\ UNCHANGED <<subscriptions, navs, others>>

\* save_risk, called for a text message (is_callback = FALSE) or a button press.
\* When the INSERT fails the except branch replies through update.message,
\* which is None for a button press: the AttributeError leaves the prompt as it is.
save_risk(u, d, ok, is_callback) ==
    LET score == risk_score(d)
        d2 == Put(d, "risk_score", score)
    IN  /\ risks' = IF ok THEN insert_row(risks, risk_row(Len(risks) + 1, u, d2, score))
                 ELSE risks
        /\ Render(u, d2, IF ok THEN saved_prompt
                         ELSE IF is_callback THEN screen[u]
                         ELSE save_failed_prompt)
        /\ UNCHANGED <<subscriptions, navs, others>>

----------------------------------------------------------------------------
(* The handlers of the submission workflow.  A callback handler takes the  *)
(* token pressed; a text handler takes the message and is entered through  *)
(* handle_text.                                                            *)

\* the /start command
start(u) ==
    /\ navs' = navs + 1
    /\ subscriptions' = start_subscriptions(u)
    /\ Render(u, user_data[u], welcome_prompt(TRUE, is_subscribed(start_subscriptions(u), u)))
    /\ UNCHANGED <<risks, others>>

submit_risk_start(u, tok) ==
    /\ tok.h = "submit_risk"
    /\ Reply(u, user_data[u], phase_prompt)

custom_phase_request(u, tok) ==
    /\ tok.h = "custom_phase"
    /\ Reply(u, Put(user_data[u], "awaiting_custom_phase", TRUE), custom_phase_prompt)

handle_custom_phase(u, m) ==
    /\ Routed(user_data[u], "awaiting_custom_phase")
    /\ Reply(u, Put(Put(user_data[u], "phase", m), "awaiting_custom_phase", FALSE),
             object_prompt(<<m>>))

choose_phase(u, tok) ==
    /\ tok.h = "phase_"
    /\ Reply(u, Put(user_data[u], "phase", tok.a), object_prompt(<<tok.a>>))

custom_object_request(u, tok) ==
    /\ tok.h = "custom_object"
    /\ Reply(u, Put(user_data[u], "awaiting_custom_object", TRUE), custom_object_prompt)

handle_custom_object(u, m) ==
    /\ Routed(user_data[u], "awaiting_custom_object")
    /\ Reply(u, Put(Put(user_data[u], "object", m), "awaiting_custom_object", FALSE),
             category_prompt(<<m>>, "svoyu"))

choose_object(u, tok) ==
    /\ tok.h = "object_"
    /\ Reply(u, Put(user_data[u], "object", tok.a), category_prompt(<<tok.a>>, "svoy"))

custom_category_request(u, tok) ==
    /\ tok.h = "custom_category"
    /\ Reply(u, Put(user_data[u], "awaiting_custom_category", TRUE), custom_category_prompt)

handle_custom_category(u, m) ==
    /\ Routed(user_data[u], "awaiting_custom_category")
    /\ Reply(u, Put(Put(Put(user_data[u], "category", m), "awaiting_custom_category", FALSE),
                    "awaiting_description", TRUE),
             description_prompt(<<m>>))

choose_category(u, tok) ==
    /\ tok.h = "cat_"
    /\ Reply(u, Put(Put(user_data[u], "category", tok.a), "awaiting_description", TRUE),
             description_prompt(<<tok.a>>))

get_description(u, m) ==
    /\ Routed(user_data[u], "awaiting_description")
    /\ Reply(u, Put(Put(user_data[u], "description", m), "awaiting_description", FALSE),
             schedule_prompt(TRUE))

\* the decision "no impact" (flag = 0) or "ask an expert" (flag = 1) on a
\* triple: the three values are set to 0
\* a zero triple that never records the deferral to an expert
ZeroTriple_unflagged(d, kmin, kml, kmax, kflag, flag) ==
    Put(PutTriple(d, kmin, kml, kmax, <<0, 0, 0>>), kflag, 0)

ZeroTriple(d, kmin, kml, kmax, kflag, flag) ==
    Put(PutTriple(d, kmin, kml, kmax, <<0, 0, 0>>), kflag, flag)

no_impact_schedule(u, tok) ==
    /\ tok.h = "no_impact_schedule"
    /\ Reply(u, ZeroTriple(user_data[u], "impact_schedule_min", "impact_schedule_most_likely",
                           "impact_schedule_max", "needs_schedule_evaluation", 0),
             cost_prompt(TRUE))

request_schedule_evaluation(u, tok) ==
    /\ tok.h = "request_schedule_evaluation"
    /\ Reply(u, ZeroTriple(user_data[u], "impact_schedule_min", "impact_schedule_most_likely",
                           "impact_schedule_max", "needs_schedule_evaluation", 1),
             cost_prompt(TRUE))

evaluate_schedule_impact(u, tok) ==
    /\ tok.h = "evaluate_schedule_impact"
    /\ Reply(u, Put(Put(user_data[u], "needs_schedule_evaluation", 0),
                    "awaiting_schedule_values", TRUE),
             schedule_values_prompt)

\* the mutant: any three numbers are stored, whatever their order
triple_entry_unordered(d, m, kmin, kml, kmax, marker, back_data, next_prompt) ==
    LET parsed == parse_three_values(m)
    IN  IF parsed = <<>>
        THEN [data |-> d, prompt |-> format_error_prompt(back_data)]
        ELSE [data |-> Put(PutTriple(d, kmin, kml, kmax, parsed[1]), marker, FALSE),
              prompt |-> next_prompt]

\* a step that gives up after a text without three numbers: the marker is cleared
triple_entry_giving_up(d, m, kmin, kml, kmax, marker, back_data, next_prompt) ==
    LET parsed == parse_three_values(m)
    IN  IF parsed = <<>>
        THEN [data |-> Put(d, marker, FALSE), prompt |-> format_error_prompt(back_data)]
        ELSE IF ~(parsed[1][1] <= parsed[1][2] /\ parsed[1][2] <= parsed[1][3])
        THEN [data |-> d, prompt |-> order_error_prompt(back_data)]
        ELSE [data |-> Put(PutTriple(d, kmin, kml, kmax, parsed[1]), marker, FALSE),
              prompt |-> next_prompt]

\* the body shared by handle_schedule_values, handle_cost_values and their
\* _re twins: the new user_data and the prompt rendered for message m
triple_entry(d, m, kmin, kml, kmax, marker, back_data, next_prompt) ==
    CHOOSE r \in
        {IF parsed = <<>>
         THEN [data |-> d, prompt |-> format_error_prompt(back_data)]
         ELSE IF ~(parsed[1][1] <= parsed[1][2] /\ parsed[1][2] <= parsed[1][3])
         THEN [data |-> d, prompt |-> order_error_prompt(back_data)]
         ELSE [data |-> Put(PutTriple(d, kmin, kml, kmax, parsed[1]), marker, FALSE),
               prompt |-> next_prompt] : parsed \in {parse_three_values(m)}} : TRUE

handle_schedule_values(u, m) ==
    /\ Routed(user_data[u], "awaiting_schedule_values")
    /\ \E r \in {triple_entry(user_data[u], m, "impact_schedule_min",
                             "impact_schedule_most_likely", "impact_schedule_max",
                             "awaiting_schedule_values", "schedule_impact", cost_prompt(FALSE))} :
           Reply(u, r.data, r.prompt)

no_impact_cost(u, tok) ==
    /\ tok.h = "no_impact_cost"
    /\ Reply(u, ZeroTriple(user_data[u], "impact_cost_min", "impact_cost_most_likely",
                           "impact_cost_max", "needs_cost_evaluation", 0),
             probability_prompt("50-75%"))

request_cost_evaluation(u, tok) ==
    /\ tok.h = "request_cost_evaluation"
    /\ Reply(u, ZeroTriple(user_data[u], "impact_cost_min", "impact_cost_most_likely",
                           "impact_cost_max", "needs_cost_evaluation", 1),
             probability_prompt("50-75%"))

evaluate_cost_impact(u, tok) ==
    /\ tok.h = "evaluate_cost_impact"
    /\ Reply(u, Put(Put(user_data[u], "needs_cost_evaluation", 0), "awaiting_cost_values", TRUE),
             cost_values_prompt)

handle_cost_values(u, m) ==
    /\ Routed(user_data[u], "awaiting_cost_values")
    /\ \E r \in {triple_entry(user_data[u], m, "impact_cost_min", "impact_cost_most_likely",
                             "impact_cost_max", "awaiting_cost_values", "cost_impact",
                             probability_prompt("50-75%"))} :
           Reply(u, r.data, r.prompt)

custom_probability_request(u, tok) ==
    /\ tok.h = "custom_probability"
    /\ Reply(u, Put(user_data[u], "awaiting_custom_probability", TRUE), custom_probability_prompt)

\* the mutant: the range test of the custom probability is missing
custom_probability_unchecked(m) == py_int(m)

\* the checks of handle_custom_probability and handle_custom_probability_re:
\* <<prob>> when the text is accepted, <<>> when the prompt is repeated
custom_probability(m) ==
    CHOOSE accepted \in
        {IF prob = <<>> THEN <<>>
         ELSE IF prob[1] < 0 \/ prob[1] > 100 THEN <<>>
         ELSE prob : prob \in {py_int(m)}} : TRUE

handle_custom_probability(u, m) ==
    /\ Routed(user_data[u], "awaiting_custom_probability")
    /\ \E prob \in {custom_probability(m)} :
           IF prob = <<>>
           THEN Reply(u, user_data[u], range_error_prompt("probability"))
           ELSE Reply(u, Put(Put(Put(user_data[u], "probability", prob[1]),
                                 "awaiting_custom_probability", FALSE),
                             "awaiting_timeline", TRUE),
                      timeline_prompt)

\* int(...) of the level and the lookup in PROBABILITY_MAPPING: <<value>>, or
\* <<>> when the handler answers with an alert and changes nothing
probability_of_level(a) ==
    LET level == py_int(a)
    IN  IF level = <<>> THEN <<>>
        ELSE IF level[1] \notin DOMAIN PROBABILITY_MAPPING THEN <<>>
        ELSE <<PROBABILITY_MAPPING[level[1]]>>

choose_probability(u, tok) ==
    /\ tok.h = "prob_"
    /\ \E prob \in {probability_of_level(tok.a)} :
           IF prob = <<>>
           THEN Reply(u, user_data[u], screen[u])
           ELSE Reply(u, Put(Put(user_data[u], "probability", prob[1]), "awaiting_timeline", TRUE),
                      timeline_prompt)

handle_timeline(u, m) ==
    /\ Routed(user_data[u], "awaiting_timeline")
    /\ Reply(u, Put(Put(user_data[u], "timeline", m), "awaiting_timeline", FALSE),
             mitigation_choice_prompt)

add_mitigation_with_evaluation(u, tok) ==
    /\ tok.h = "add_mitigation_with_evaluation"
    /\ Reply(u, Put(Put(user_data[u], "reevaluation_needed", 1), "awaiting_mitigation", TRUE),
             mitigation_prompt)

add_mitigation_without_evaluation(u, tok) ==
    /\ tok.h = "add_mitigation_without_evaluation"
    /\ Reply(u, Put(Put(user_data[u], "reevaluation_needed", 0), "awaiting_mitigation", TRUE),
             mitigation_prompt)

handle_mitigation(u, m) ==
    /\ Routed(user_data[u], "awaiting_mitigation")
    /\ Reply(u, Put(Put(Put(user_data[u], "mitigation", m), "awaiting_mitigation", FALSE),
                    "awaiting_expected_result", TRUE),
             expected_result_prompt)

handle_expected_result(u, m, ok) ==
    /\ Routed(user_data[u], "awaiting_expected_result")
    /\ LET d == Put(Put(user_data[u], "expected_result", m), "awaiting_expected_result", FALSE)
       IN  IF Get(d, "reevaluation_needed", 0) = 1
           THEN Reply(u, d, schedule_re_prompt(TRUE))
           ELSE save_risk(u, d, ok, FALSE)

(* The re-evaluation after the mitigation *)

no_impact_schedule_re(u, tok) ==
    /\ tok.h = "no_impact_schedule_re"
    /\ Reply(u, ZeroTriple(user_data[u], "impact_schedule_min_re",
                           "impact_schedule_most_likely_re", "impact_schedule_max_re",
                           "needs_schedule_evaluation_re", 0),
             cost_re_prompt)

request_schedule_evaluation_re(u, tok) ==
    /\ tok.h = "request_schedule_evaluation_re"
    /\ Reply(u, ZeroTriple(user_data[u], "impact_schedule_min_re",
                           "impact_schedule_most_likely_re", "impact_schedule_max_re",
                           "needs_schedule_evaluation_re", 1),
             cost_re_prompt)

evaluate_schedule_impact_re(u, tok) ==
    /\ tok.h = "evaluate_schedule_impact_re"
    /\ Reply(u, Put(Put(user_data[u], "needs_schedule_evaluation_re", 0),
                    "awaiting_schedule_values_re", TRUE),
             schedule_values_re_prompt)

handle_schedule_values_re(u, m) ==
    /\ Routed(user_data[u], "awaiting_schedule_values_re")
    /\ \E r \in {triple_entry(user_data[u], m, "impact_schedule_min_re",
                             "impact_schedule_most_likely_re", "impact_schedule_max_re",
                             "awaiting_schedule_values_re", "schedule_impact_re", cost_re_prompt)} :
           Reply(u, r.data, r.prompt)

no_impact_cost_re(u, tok) ==
    /\ tok.h = "no_impact_cost_re"
    /\ Reply(u, ZeroTriple(user_data[u], "impact_cost_min_re", "impact_cost_most_likely_re",
                           "impact_cost_max_re", "needs_cost_evaluation_re", 0),
             probability_re_prompt)

request_cost_evaluation_re(u, tok) ==
    /\ tok.h = "request_cost_evaluation_re"
    /\ Reply(u, ZeroTriple(user_data[u], "impact_cost_min_re", "impact_cost_most_likely_re",
                           "impact_cost_max_re", "needs_cost_evaluation_re", 1),
             probability_re_prompt)

evaluate_cost_impact_re(u, tok) ==
    /\ tok.h = "evaluate_cost_impact_re"
    /\ Reply(u, Put(Put(user_data[u], "needs_cost_evaluation_re", 0),
                    "awaiting_cost_values_re", TRUE),
             cost_values_re_prompt)

handle_cost_values_re(u, m) ==
    /\ Routed(user_data[u], "awaiting_cost_values_re")
    /\ \E r \in {triple_entry(user_data[u], m, "impact_cost_min_re", "impact_cost_most_likely_re",
                             "impact_cost_max_re", "awaiting_cost_values_re", "cost_impact_re",
                             probability_re_prompt)} :
           Reply(u, r.data, r.prompt)

custom_probability_re_request(u, tok) ==
    /\ tok.h = "custom_probability_re"
    /\ Reply(u, Put(user_data[u], "awaiting_custom_probability_re", TRUE),
             custom_probability_re_prompt)

handle_custom_probability_re(u, m, ok) ==
    /\ Routed(user_data[u], "awaiting_custom_probability_re")
    /\ \E prob \in {custom_probability(m)} :
           IF prob = <<>>
           THEN Reply(u, user_data[u], range_error_prompt("probability_re"))
           ELSE save_risk(u, Put(Put(user_data[u], "probability_re", prob[1]),
                                 "awaiting_custom_probability_re", FALSE),
                          ok, FALSE)

choose_probability_re(u, tok, ok) ==
    /\ tok.h = "prob_re_"
    /\ \E prob \in {probability_of_level(tok.a)} :
           IF prob = <<>>
           THEN Reply(u, user_data[u], screen[u])
           ELSE save_risk(u, Put(user_data[u], "probability_re", prob[1]), ok, TRUE)

----------------------------------------------------------------------------
(* handle_back *)

ReturnPoints == {"menu", "phase_selection", "object_selection", "category_selection",
                 "description", "schedule_impact", "cost_impact", "probability", "timeline",
                 "mitigation_choice", "mitigation", "mitigation_result",
                 "schedule_impact_re", "cost_impact_re", "probability_re"}

\* a schedule branch that forgets to pop the deferral flag
BackPops_keeping_deferral(point) ==
    CASE point = "schedule_impact" -> ScheduleKeys \cup {"awaiting_schedule_values"}
      [] point = "cost_impact" -> CostKeys \cup {"needs_cost_evaluation", "awaiting_cost_values"}
      [] OTHER -> {}

\* the keys the branch of a return point pops
BackPops(point) ==
    CASE point = "phase_selection" -> {"phase", "awaiting_custom_phase"}
      [] point = "object_selection" -> {"object", "awaiting_custom_object"}
      [] point = "category_selection" -> {"category", "awaiting_custom_category"}
      [] point = "description" -> {"description", "awaiting_description"}
      [] point = "schedule_impact" ->
            ScheduleKeys \cup {"needs_schedule_evaluation", "awaiting_schedule_values"}
      [] point = "cost_impact" -> CostKeys \cup {"needs_cost_evaluation", "awaiting_cost_values"}
      [] point = "probability" -> {"probability", "awaiting_custom_probability"}
      [] point = "timeline" -> {"timeline", "awaiting_timeline"}
      [] point = "mitigation_choice" -> {"reevaluation_needed", "awaiting_mitigation"}
      [] point = "mitigation" -> {"mitigation", "awaiting_mitigation"}
      [] point = "mitigation_result" -> {"expected_result", "awaiting_expected_result"}
      [] point = "schedule_impact_re" ->
            ScheduleReKeys \cup {"needs_schedule_evaluation_re", "awaiting_schedule_values_re"}
      [] point = "cost_impact_re" ->
            CostReKeys \cup {"needs_cost_evaluation_re", "awaiting_cost_values_re"}
      [] point = "probability_re" -> {"probability_re", "awaiting_custom_probability_re"}
      [] OTHER -> {}

\* the markers a branch sets to True after it has rendered the prompt
BackAwaits(point) ==
    CASE point = "description" -> {"awaiting_description"}
      [] point = "timeline" -> {"awaiting_timeline"}
      [] point = "mitigation" -> {"awaiting_mitigation"}
      [] point = "mitigation_result" -> {"awaiting_expected_result"}
      [] OTHER -> {}

\* a branch that flips the deferral flag where the code pops it
BackData_flipping(d, point) ==
    [k \in Keys |-> IF k \in BackAwaits(point) THEN <<TRUE>>
                    ELSE IF k = "needs_schedule_evaluation" /\ point = "schedule_impact"
                         THEN (IF d[k] = <<>> THEN <<0>> ELSE <<>>)
                    ELSE IF k \in BackPops(point) THEN <<>>
                    ELSE d[k]]

\* user_data after the branch of handle_back for the return point
BackData(d, point) ==
    [k \in Keys |-> IF k \in BackAwaits(point) THEN <<TRUE>>
                    ELSE IF k \in BackPops(point) THEN <<>>
                    ELSE d[k]]

\* the prompt the branch renders, from user_data after its pops
BackPrompt(d, point, subscribed) ==
    CASE point = "menu" -> welcome_prompt(FALSE, subscribed)
      [] point = "phase_selection" -> phase_prompt
      [] point = "object_selection" -> object_prompt(d["phase"])
      [] point = "category_selection" -> category_prompt(d["object"], "svoy")
      [] point = "description" -> description_prompt(d["category"])
      [] point = "schedule_impact" -> schedule_prompt(FALSE)
      [] point = "cost_impact" -> cost_prompt(FALSE)
      [] point = "probability" -> probability_prompt("60-75%")
      [] point = "timeline" -> timeline_prompt
      [] point = "mitigation_choice" -> mitigation_choice_prompt
      [] point = "mitigation" -> mitigation_prompt
      [] point = "mitigation_result" -> expected_result_prompt
      [] point = "schedule_impact_re" -> schedule_re_prompt(FALSE)
      [] point = "cost_impact_re" -> cost_re_prompt
      [] point = "probability_re" -> probability_re_prompt

handle_back(u, tok) ==
    /\ tok.h = "back_to_"
    /\ tok.a[1] \in ReturnPoints
    /\ navs' = navs + 1
    /\ subscriptions' = IF tok.a[1] = "menu" THEN start_subscriptions(u) ELSE subscriptions
    /\ Render(u, BackData(user_data[u], tok.a[1]),
              BackPrompt(PopAll(user_data[u], BackPops(tok.a[1])), tok.a[1],
                         is_subscribed(start_subscriptions(u), u)))
    /\ UNCHANGED <<risks, others>>

----------------------------------------------------------------------------
(* Supplementary mitigations of a stored risk.  The reads of               *)
(* view_risk_details are taken to succeed.                                  *)

DigitChar(n) ==
    CASE n = 0 -> "0" [] n = 1 -> "1" [] n = 2 -> "2" [] n = 3 -> "3" [] n = 4 -> "4"
      [] n = 5 -> "5" [] n = 6 -> "6" [] n = 7 -> "7" [] n = 8 -> "8" [] n = 9 -> "9"

\* the f-string of a risk id: the decimal numeral, or None
RECURSIVE py_str(_)
py_str(n) ==
    IF n = <<>> THEN <<"N", "o", "n", "e">>
    ELSE IF n[1] < 10 THEN <<DigitChar(n[1])>>
    ELSE py_str(<<n[1] \div 10>>) \o <<DigitChar(n[1] % 10)>>

risk_not_found_prompt == Prompt("Risk ne nayden.", <<>>, create_back_keyboard("menu"))

\* the details of a risk and its supplementary mitigations
risk_details_prompt(risk, mitigations) ==
    Prompt("Detali riska #{id}", <<risk, mitigations>>,
           << Btn(<<"Dobavit meropriyatie">>, "add_mitigation_", py_str(<<risk["id"]>>)),
              Btn(<<"Vernutsya k spisku">>, "view_risks_list", <<>>),
              Btn(<<"V glavnoe menyu">>, "back_to_", <<"menu">>) >>)

new_mitigation_prompt ==
    Prompt("Vvedite meropriyatie po mitigacii riska:", <<>>,
           create_back_keyboard("risk_details"))

expected_result_for_mitigation_prompt ==
    Prompt("Ozhidaemyy rezultat ot meropriyatiya (opishite tekstom):", <<>>,
           create_back_keyboard("risk_details"))

mitigation_added_prompt(risk_id) ==
    Prompt("Meropriyatie uspeshno dobavleno!", <<>>,
           << Btn(<<"Posmotret obnovlennyy risk">>, "view_risk_", py_str(risk_id)) >>)

mitigation_failed_prompt ==
    Prompt("Proizoshla oshibka pri dobavlenii meropriyatiya.", <<>>,
           create_back_keyboard("menu"))

\* SELECT * FROM additional_mitigations WHERE risk_id = ? ORDER BY timestamp
mitigations_of(risk_id) ==
    SelectSeq(additional_mitigations, LAMBDA row : row.risk_id = <<risk_id>>)

view_risk_details(u, tok) ==
    /\ tok.h = "view_risk_"
    /\ py_int(tok.a) # <<>>
    /\ LET risk_id == py_int(tok.a)[1]
           found == {i \in DOMAIN risks : risks[i]["id"] = risk_id}
       IN  IF found = {}
           THEN Reply(u, user_data[u], risk_not_found_prompt)
           ELSE Reply(u, user_data[u],
                      risk_details_prompt(risks[CHOOSE i \in found : TRUE],
                                          mitigations_of(risk_id)))

add_mitigation_start(u, tok) ==
    /\ tok.h = "add_mitigation_"
    /\ py_int(tok.a) # <<>>
    /\ Reply(u, Put(Put(user_data[u], "adding_mitigation_to_risk", py_int(tok.a)[1]),
                    "awaiting_mitigation_for_existing_risk", TRUE),
             new_mitigation_prompt)

handle_new_mitigation(u, m) ==
    /\ Routed(user_data[u], "awaiting_mitigation_for_existing_risk")
    /\ Reply(u, Put(Put(Put(user_data[u], "new_mitigation", m),
                        "awaiting_mitigation_for_existing_risk", FALSE),
                    "awaiting_expected_result_for_mitigation", TRUE),
             expected_result_for_mitigation_prompt)

\* the row of the INSERT: risk_id and mitigation hold <<>> for NULL.  The
\* connection of db_connection does not turn foreign keys on, so the
\* reference to risks(id) is not checked.
mitigation_row(id, u, d, expected_result) ==
    [id |-> id, risk_id |-> d["adding_mitigation_to_risk"], user_id |-> u,
     mitigation |-> d["new_mitigation"], expected_result |-> expected_result]

handle_expected_result_for_mitigation(u, m, ok) ==
    /\ Routed(user_data[u], "awaiting_expected_result_for_mitigation")
    /\ IF ok
       THEN /\ additional_mitigations' =
                  insert_row(additional_mitigations,
                             mitigation_row(Len(additional_mitigations) + 1, u, user_data[u], m))
            /\ Render(u, PopAll(user_data[u],
                                {"adding_mitigation_to_risk", "new_mitigation",
                                 "awaiting_expected_result_for_mitigation"}),
                      mitigation_added_prompt(user_data[u]["adding_mitigation_to_risk"]))
            /\ UNCHANGED <<risks, subscriptions, navs, lock_vars, reminder_vars>>
       ELSE Reply(u, user_data[u], mitigation_failed_prompt)

back_to_risk_details(u, tok) ==
    /\ tok.h = "back_to_"
    /\ tok.a = <<"risk_details">>
    /\ IF Get(user_data[u], "adding_mitigation_to_risk", 0) # 0
       THEN Reply(u, Put(user_data[u], "awaiting_mitigation_for_existing_risk", TRUE),
                  new_mitigation_prompt)
       ELSE start(u)

----------------------------------------------------------------------------
(* handle_text: the message goes to the handler of the first marker set *)

handle_text(u, m) ==
    \/ handle_custom_phase(u, m)
    \/ handle_custom_object(u, m)
    \/ handle_custom_category(u, m)
    \/ get_description(u, m)
    \/ handle_schedule_values(u, m)
    \/ handle_cost_values(u, m)
    \/ handle_custom_probability(u, m)
    \/ handle_timeline(u, m)
    \/ handle_mitigation(u, m)
    \/ \E ok \in DbOutcomes : handle_expected_result(u, m, ok)
    \/ handle_schedule_values_re(u, m)
    \/ handle_cost_values_re(u, m)
    \/ \E ok \in DbOutcomes : handle_custom_probability_re(u, m, ok)
    \/ handle_new_mitigation(u, m)
    \/ \E ok \in DbOutcomes : handle_expected_result_for_mitigation(u, m, ok)
    \/ /\ TextRoute(user_data[u]) = "none"
       /\ Reply(u, user_data[u], not_understood_prompt)

----------------------------------------------------------------------------
(* The specification *)

Init ==
    /\ user_data = [u \in Users |-> EmptyData]
    /\ screen = [u \in Users |-> NoPrompt]
    /\ risks = <<>>
    /\ subscriptions = [u \in Users |-> <<>>]
    /\ navs = 0
    /\ db_lock = <<>>
    /\ pc = [u \in Users |-> [at |-> "ready", row |-> <<>>]]
    /\ lock_log = <<>>
    /\ additional_mitigations = <<>>
    /\ today = 1
    /\ sent = <<>>
    /\ job = NoJob

\* the dispatch of main(): the first handler whose pattern matches the token
on_callback(u, tok) ==
    \/ submit_risk_start(u, tok)
    \/ custom_phase_request(u, tok)
    \/ choose_phase(u, tok)
    \/ custom_object_request(u, tok)
    \/ choose_object(u, tok)
    \/ custom_category_request(u, tok)
    \/ choose_category(u, tok)
    \/ no_impact_schedule(u, tok)
    \/ request_schedule_evaluation(u, tok)
    \/ evaluate_schedule_impact(u, tok)
    \/ no_impact_cost(u, tok)
    \/ request_cost_evaluation(u, tok)
    \/ evaluate_cost_impact(u, tok)
    \/ custom_probability_request(u, tok)
    \/ \E ok \in DbOutcomes : choose_probability_re(u, tok, ok)
    \/ add_mitigation_with_evaluation(u, tok)
    \/ add_mitigation_without_evaluation(u, tok)
    \/ no_impact_schedule_re(u, tok)
    \/ request_schedule_evaluation_re(u, tok)
    \/ evaluate_schedule_impact_re(u, tok)
    \/ no_impact_cost_re(u, tok)
    \/ request_cost_evaluation_re(u, tok)
    \/ evaluate_cost_impact_re(u, tok)
    \/ custom_probability_re_request(u, tok)
    \/ view_risk_details(u, tok)
    \/ add_mitigation_start(u, tok)
    \/ back_to_risk_details(u, tok)
    \/ choose_probability(u, tok)
    \/ handle_back(u, tok)

Next ==
    \E u \in Users :
        \/ \E c \in Commands(u) : start(u)
        \/ \E tok \in Pressable(u) : on_callback(u, tok)
        \/ \E m \in TextOffers(u) : handle_text(u, m)

Spec == Init /\ [][Next]_vars

\* the dispatch of main() without the handlers of the custom names
on_callback_listed(u, tok) ==
    \/ submit_risk_start(u, tok)
    \/ choose_phase(u, tok)
    \/ choose_object(u, tok)
    \/ choose_category(u, tok)
    \/ no_impact_schedule(u, tok)
    \/ request_schedule_evaluation(u, tok)
    \/ evaluate_schedule_impact(u, tok)
    \/ no_impact_cost(u, tok)
    \/ request_cost_evaluation(u, tok)
    \/ evaluate_cost_impact(u, tok)
    \/ custom_probability_request(u, tok)
    \/ \E ok \in DbOutcomes : choose_probability_re(u, tok, ok)
    \/ add_mitigation_with_evaluation(u, tok)
    \/ add_mitigation_without_evaluation(u, tok)
    \/ no_impact_schedule_re(u, tok)
    \/ request_schedule_evaluation_re(u, tok)
    \/ evaluate_schedule_impact_re(u, tok)
    \/ no_impact_cost_re(u, tok)
    \/ request_cost_evaluation_re(u, tok)
    \/ evaluate_cost_impact_re(u, tok)
    \/ custom_probability_re_request(u, tok)
    \/ choose_probability(u, tok)
    \/ handle_back(u, tok)

\* handle_text without the handlers of the custom names
handle_text_listed(u, m) ==
    \/ get_description(u, m)
    \/ handle_schedule_values(u, m)
    \/ handle_cost_values(u, m)
    \/ handle_custom_probability(u, m)
    \/ handle_timeline(u, m)
    \/ handle_mitigation(u, m)
    \/ \E ok \in DbOutcomes : handle_expected_result(u, m, ok)
    \/ handle_schedule_values_re(u, m)
    \/ handle_cost_values_re(u, m)
    \/ \E ok \in DbOutcomes : handle_custom_probability_re(u, m, ok)
    \/ /\ TextRoute(user_data[u]) = "none"
       /\ Reply(u, user_data[u], not_understood_prompt)

NextRestart ==
    \E u \in Users :
        \/ \E c \in CommandsRestart(u) : start(u)
        \/ \E tok \in PressableRestart(u) : on_callback_listed(u, tok)
        \/ \E m \in TextOffers(u) : handle_text_listed(u, m)

SpecRestart == Init /\ [][NextRestart]_vars

(* SpecAgain: the user submits again after a submission.  Every impact is   *)
(* answered with "no impact", the insert of save_risk always succeeds, and  *)
(* the user returns to the menu by /start or back_to_menu.                  *)

\* the rows the user of SpecAgain may commit
MaxRows == 2

AgainButtons ==
    {"submit_risk", "phase_", "object_", "cat_", "no_impact_schedule", "no_impact_cost",
     "prob_", "add_mitigation_with_evaluation", "add_mitigation_without_evaluation",
     "no_impact_schedule_re", "no_impact_cost_re", "prob_re_", "custom_probability_re",
     "back_to_"}

ActiveAgain == Len(risks) < MaxRows

CommandsAgain(u) == IF ActiveAgain /\ navs < MaxMenus THEN {"/start"} ELSE {}

PressableAgain(u) ==
    IF ~ActiveAgain THEN {}
    ELSE {tok \in Offered(u) :
            /\ Picked(tok)
            /\ tok.h \in AgainButtons
            /\ tok.h = "back_to_" => (tok.a = <<"menu">> /\ navs < MaxMenus)}

TextOffersAgain(u) ==
    IF ~ActiveAgain THEN {}
    ELSE IF TextRoute(user_data[u]) = "awaiting_custom_probability_re"
         THEN { <<"8", "0">>, <<"1", "5", "0">> }
         ELSE Words

on_callback_again(u, tok) ==
    \/ submit_risk_start(u, tok)
    \/ choose_phase(u, tok)
    \/ choose_object(u, tok)
    \/ choose_category(u, tok)
    \/ no_impact_schedule(u, tok)
    \/ no_impact_cost(u, tok)
    \/ choose_probability_re(u, tok, TRUE)
    \/ add_mitigation_with_evaluation(u, tok)
    \/ add_mitigation_without_evaluation(u, tok)
    \/ no_impact_schedule_re(u, tok)
    \/ no_impact_cost_re(u, tok)
    \/ custom_probability_re_request(u, tok)
    \/ choose_probability(u, tok)
    \/ handle_back(u, tok)

handle_text_again(u, m) ==
    \/ get_description(u, m)
    \/ handle_timeline(u, m)
    \/ handle_mitigation(u, m)
    \/ handle_expected_result(u, m, TRUE)
    \/ handle_custom_probability_re(u, m, TRUE)
    \/ /\ TextRoute(user_data[u]) = "none"
       /\ Reply(u, user_data[u], not_understood_prompt)

NextAgain ==
    \E u \in Users :
        \/ \E c \in CommandsAgain(u) : start(u)
        \/ \E tok \in PressableAgain(u) : on_callback_again(u, tok)
        \/ \E m \in TextOffersAgain(u) : handle_text_again(u, m)

SpecAgain == Init /\ [][NextAgain]_vars

(* SpecCommit: the users of CommitUsers have each answered the last step   *)
(* of a submission and save_risk runs for all of them, one statement of    *)
(* its critical section at a time.                                         *)

CommitUsers == {1, 2, 3}

\* the draft handle_expected_result hands to save_risk after a submission
\* in which nothing has an impact
ReadyDraft(level) ==
    LET texts == [k \in Keys |-> IF k \in TextKeys THEN << <<"t", "e", "s", "t">> >>
                                 ELSE IF k \in {"awaiting_description", "awaiting_timeline",
                                                "awaiting_mitigation", "awaiting_expected_result"}
                                      THEN <<FALSE>>
                                 ELSE <<>>]
        phase == Put(texts, "phase", <<"3">>)
        schedule == ZeroTriple(phase, "impact_schedule_min", "impact_schedule_most_likely",
                               "impact_schedule_max", "needs_schedule_evaluation", 0)
        cost == ZeroTriple(schedule, "impact_cost_min", "impact_cost_most_likely",
                           "impact_cost_max", "needs_cost_evaluation", 0)
    IN  Put(Put(cost, "probability", PROBABILITY_MAPPING[level]), "reevaluation_needed", 0)

ReadyDrafts == {ReadyDraft(level) : level \in {1, 5}}

\* a db_lock that does not exclude
can_acquire_always(lock) == TRUE

\* with db_lock: the lock is taken when no one holds it
can_acquire(lock) == lock = <<>>

\* save_risk up to the entry of db_connection: the score is computed, the
\* lock is taken and the connection is opened
db_connection_enter(u) ==
    /\ pc[u].at = "ready"
    /\ can_acquire(db_lock)
    /\ db_lock' = <<u>>
    /\ lock_log' = Append(lock_log, u)
    /\ user_data' = [user_data EXCEPT ![u] = Put(@, "risk_score", risk_score(@))]
    /\ pc' = [pc EXCEPT ![u].at = "connected"]
    /\ UNCHANGED <<screen, risks, subscriptions, navs,
                 additional_mitigations, reminder_vars>>

\* cursor.execute(INSERT ...): the row gets the next AUTOINCREMENT id, or the
\* statement raises
execute_insert(u, ok) ==
    /\ pc[u].at = "connected"
    /\ pc' = [pc EXCEPT ![u] =
                IF ok
                THEN [at |-> "inserted",
                      row |-> <<risk_row(Len(risks) + 1, u, user_data[u],
                                         user_data[u]["risk_score"][1])>>]
                ELSE [at |-> "raised", row |-> <<>>]]
    /\ UNCHANGED <<user_data, screen, risks, subscriptions, navs, db_lock, lock_log,
                 additional_mitigations, reminder_vars>>

\* conn.commit()
conn_commit(u) ==
    /\ pc[u].at = "inserted"
    /\ risks' = insert_row(risks, pc[u].row[1])
    /\ pc' = [pc EXCEPT ![u].at = "committed"]
    /\ UNCHANGED <<user_data, screen, subscriptions, navs, db_lock, lock_log,
                 additional_mitigations, reminder_vars>>

\* the exit of db_connection: conn.close() and the release of db_lock
db_connection_exit(u) ==
    /\ pc[u].at \in {"committed", "raised"}
    /\ db_lock' = <<>>
    /\ pc' = [pc EXCEPT ![u].at = "closed"]
    /\ UNCHANGED <<user_data, screen, risks, subscriptions, navs, lock_log,
                 additional_mitigations, reminder_vars>>

\* the reply of save_risk to the text message that triggered it
save_risk_reply(u) ==
    /\ pc[u].at = "closed"
    /\ screen' = [screen EXCEPT ![u] = IF pc[u].row = <<>> THEN save_failed_prompt
                                       ELSE saved_prompt]
    /\ pc' = [pc EXCEPT ![u].at = "done"]
    /\ UNCHANGED <<user_data, risks, subscriptions, navs, db_lock, lock_log,
                 additional_mitigations, reminder_vars>>

InitCommit ==
    /\ user_data \in [CommitUsers -> ReadyDrafts]
    /\ screen = [u \in CommitUsers |-> expected_result_prompt]
    /\ risks = <<>>
    /\ subscriptions = [u \in CommitUsers |-> <<[is_subscribed |-> 1, last_notification |-> <<>>]>>]
    /\ navs = 0
    /\ db_lock = <<>>
    /\ pc = [u \in CommitUsers |-> [at |-> "ready", row |-> <<>>]]
    /\ lock_log = <<>>
    /\ additional_mitigations = <<>>
    /\ today = 1
    /\ sent = <<>>
    /\ job = NoJob

NextCommit ==
    \E u \in CommitUsers :
        \/ db_connection_enter(u)
        \/ \E ok \in DbOutcomes : execute_insert(u, ok)
        \/ conn_commit(u)
        \/ db_connection_exit(u)
        \/ save_risk_reply(u)

SpecCommit == InitCommit /\ [][NextCommit]_vars

(* SpecMitigation: the user has one answer left to give, the expected       *)
(* result, before a risk is committed, and looks at stored risks and adds   *)
(* supplementary mitigations.  A callback carries the data the client       *)
(* sends: the risk ids of the callbacks are the stored one and one that no  *)
(* record has.                                                              *)

\* the supplementary mitigations the user of SpecMitigation may add
MaxMitigations == 2

RiskIds == 1..(MaxRisks + 1)

SentCallbacks ==
    {[h |-> h, a |-> py_str(<<i>>)] : h \in {"view_risk_", "add_mitigation_"}, i \in RiskIds}

ActiveMitigation == Len(additional_mitigations) < MaxMitigations

PressableMitigation(u) ==
    IF ~ActiveMitigation THEN {}
    ELSE SentCallbacks
         \cup {tok \in Offered(u) :
                 /\ tok.h \in {"view_risk_", "add_mitigation_", "back_to_"}
                 /\ tok.h = "back_to_" => navs < MaxMenus}

TextOffersMitigation(u) == IF ActiveMitigation THEN Words ELSE {}

on_callback_mitigation(u, tok) ==
    \/ view_risk_details(u, tok)
    \/ add_mitigation_start(u, tok)
    \/ back_to_risk_details(u, tok)
    \/ handle_back(u, tok)

handle_text_mitigation(u, m) ==
    \/ \E ok \in DbOutcomes : handle_expected_result(u, m, ok)
    \/ handle_new_mitigation(u, m)
    \/ \E ok \in DbOutcomes : handle_expected_result_for_mitigation(u, m, ok)
    \/ /\ TextRoute(user_data[u]) = "none"
       /\ Reply(u, user_data[u], not_understood_prompt)

InitMitigation ==
    /\ user_data = [u \in Users |->
                      Put(Pop(ReadyDraft(1), "expected_result"), "awaiting_expected_result", TRUE)]
    /\ screen = [u \in Users |-> expected_result_prompt]
    /\ risks = <<>>
    /\ subscriptions = [u \in Users |-> <<[is_subscribed |-> 1, last_notification |-> <<>>]>>]
    /\ navs = 0
    /\ db_lock = <<>>
    /\ pc = [u \in Users |-> [at |-> "ready", row |-> <<>>]]
    /\ lock_log = <<>>
    /\ additional_mitigations = <<>>
    /\ today = 1
    /\ sent = <<>>
    /\ job = NoJob

NextMitigation ==
    \E u \in Users :
        \/ \E tok \in PressableMitigation(u) : on_callback_mitigation(u, tok)
        \/ \E m \in TextOffersMitigation(u) : handle_text_mitigation(u, m)

SpecMitigation == InitMitigation /\ [][NextMitigation]_vars

(* Subscriptions and the daily reminder.  SpecReminder: two users          *)
(* subscribe and unsubscribe while the job queue runs send_daily_reminder,  *)
(* one subscriber of the batch per step; a statement on the store and the   *)
(* delivery of a message succeed or raise.                                  *)

ReminderUsers == {1, 2}

\* the runs of send_daily_reminder and the dates of SpecReminder
MaxRuns == 2

MaxDays == 2

subscribed_prompt == Prompt("Vy uspeshno podpisalis na ezhednevnye napominaniya", <<>>, <<>>)

unsubscribed_prompt == Prompt("Vy otpisany ot napominaniy.", <<>>, <<>>)

reminder_prompt(date) ==
    Prompt("Ezhednevnoe napominanie ot {current_date}", date,
           << Btn(<<"Soobshchit risk">>, "submit_risk", <<>>) >>)

\* INSERT OR REPLACE INTO subscriptions (user_id, is_subscribed, last_notification)
subscribe_user(subs, u, date) ==
    [subs EXCEPT ![u] = <<[is_subscribed |-> 1, last_notification |-> <<date>>]>>]

\* UPDATE subscriptions SET is_subscribed = 0 WHERE user_id = ?
unsubscribe_user(subs, u) ==
    IF subs[u] = <<>> THEN subs
    ELSE [subs EXCEPT ![u] = <<[@[1] EXCEPT !.is_subscribed = 0]>>]

\* SELECT user_id FROM subscriptions WHERE is_subscribed = 1, in rowid order
RECURSIVE users_from(_, _)
users_from(subs, u) ==
    IF u \notin DOMAIN subs THEN <<>>
    ELSE (IF is_subscribed(subs, u) THEN <<u>> ELSE <<>>) \o users_from(subs, u + 1)

get_subscribed_users(subs) == users_from(subs, 1)

\* the /subscribe command
subscribe(u) ==
    /\ subscriptions' = subscribe_user(subscriptions, u, today)
    /\ screen' = [screen EXCEPT ![u] = subscribed_prompt]
    /\ UNCHANGED <<user_data, risks, navs, lock_vars, additional_mitigations, reminder_vars>>

\* the /unsubscribe command
unsubscribe(u) ==
    /\ subscriptions' = unsubscribe_user(subscriptions, u)
    /\ screen' = [screen EXCEPT ![u] = unsubscribed_prompt]
    /\ UNCHANGED <<user_data, risks, navs, lock_vars, additional_mitigations, reminder_vars>>

\* the button of the menu: the subscription is switched and start renders the menu
toggle_subscription(u, tok) ==
    /\ tok.h = "toggle_subscription"
    /\ LET subs == IF is_subscribed(subscriptions, u)
                   THEN unsubscribe_user(subscriptions, u)
                   ELSE subscribe_user(subscriptions, u, today)
       IN  /\ subscriptions' = subs
           /\ screen' = [screen EXCEPT ![u] = welcome_prompt(FALSE, is_subscribed(subs, u))]
    /\ navs' = navs + 1
    /\ UNCHANGED <<user_data, risks, lock_vars, additional_mitigations, reminder_vars>>

\* what happens to one subscriber of the batch: the SELECT raises, the
\* subscriber was notified today, the delivery raises, the UPDATE raises, or
\* the reminder is sent and recorded
ReminderOutcomes == {"select_failed", "send_failed", "store_failed", "ok"}

\* a loop that a raised exception leaves
job_after_aborting(j, outcome) ==
    IF outcome \in {"select_failed", "send_failed", "store_failed"}
    THEN [j EXCEPT !.done = Append(@, outcome), !.active = FALSE]
    ELSE [j EXCEPT !.done = Append(@, outcome)]

\* the except branch logs and the for loop goes on to the next subscriber
job_after(j, outcome) == [j EXCEPT !.done = Append(@, outcome)]

\* a loop that records the date although send_message raised
subscriptions_after_any_send(subs, u, result, date) ==
    IF result \in {"ok", "send_failed"}
    THEN [subs EXCEPT ![u] = <<[@[1] EXCEPT !.last_notification = <<date>>]>>]
    ELSE subs

\* UPDATE subscriptions SET last_notification = ? WHERE user_id = ?, reached
\* only when the SELECT and send_message have returned
subscriptions_after(subs, u, result, date) ==
    IF result = "ok"
    THEN [subs EXCEPT ![u] = <<[@[1] EXCEPT !.last_notification = <<date>>]>>]
    ELSE subs

\* the start of send_daily_reminder: get_subscribed_users, outside the try
send_daily_reminder_begin(ok) ==
    /\ ~job.active
    /\ job.run < MaxRuns
    /\ job' = [run |-> job.run + 1,
               batch |-> IF ok THEN get_subscribed_users(subscriptions) ELSE <<>>,
               done |-> <<>>, active |-> ok]
    /\ UNCHANGED <<user_data, screen, risks, subscriptions, navs, lock_vars,
                   additional_mitigations, today, sent>>

\* one pass of the for loop of send_daily_reminder
send_daily_reminder_next(outcome) ==
    /\ job.active
    /\ Len(job.done) < Len(job.batch)
    /\ LET u == job.batch[Len(job.done) + 1]
           already_notified == subscriptions[u][1].last_notification = <<today>>
           result == IF outcome = "select_failed" THEN outcome
                     ELSE IF already_notified THEN "skipped"
                     ELSE outcome
       IN  /\ job' = job_after(job, result)
           /\ IF result \in {"store_failed", "ok"}
              THEN /\ sent' = Append(sent, [user |-> u, date |-> today])
                   /\ screen' = [screen EXCEPT ![u] = reminder_prompt(today)]
              ELSE UNCHANGED <<sent, screen>>
           /\ subscriptions' = subscriptions_after(subscriptions, u, result, today)
    /\ UNCHANGED <<user_data, risks, navs, lock_vars, additional_mitigations, today>>

\* the for loop is over
send_daily_reminder_end ==
    /\ job.active
    /\ Len(job.done) = Len(job.batch)
    /\ job' = [job EXCEPT !.active = FALSE]
    /\ UNCHANGED <<user_data, screen, risks, subscriptions, navs, lock_vars,
                   additional_mitigations, today, sent>>

\* the date changes
midnight ==
    /\ today < MaxDays
    /\ today' = today + 1
    /\ UNCHANGED <<user_data, screen, risks, subscriptions, navs, lock_vars,
                   additional_mitigations, sent, job>>

InitReminder ==
    /\ user_data = [u \in ReminderUsers |-> EmptyData]
    /\ screen = [u \in ReminderUsers |-> NoPrompt]
    /\ risks = <<>>
    /\ subscriptions = [u \in ReminderUsers |-> <<>>]
    /\ navs = 0
    /\ db_lock = <<>>
    /\ pc = [u \in ReminderUsers |-> [at |-> "ready", row |-> <<>>]]
    /\ lock_log = <<>>
    /\ additional_mitigations = <<>>
    /\ today = 1
    /\ sent = <<>>
    /\ job = NoJob

NextReminder ==
    \/ \E u \in ReminderUsers :
          \/ navs < MaxMenus /\ start(u)
          \/ subscribe(u)
          \/ unsubscribe(u)
          \/ /\ navs < MaxMenus
             /\ \E tok \in Offered(u) : toggle_subscription(u, tok)
    \/ \E ok \in DbOutcomes : send_daily_reminder_begin(ok)
    \/ \E outcome \in ReminderOutcomes : send_daily_reminder_next(outcome)
    \/ send_daily_reminder_end
    \/ midnight

SpecReminder == InitReminder /\ [][NextReminder]_vars

----------------------------------------------------------------------------
(* The event loop: one thread runs the handler of the update in hand and the
   job callback as coroutines, each from one await to the next. In this
   specification db_lock holds the names of the coroutines at the lock: the
   first holds it, a second one is inside db_lock.acquire(), a blocking call
   that keeps the thread, and pc[u] is the position of the handler of user
   u's update, pc[u].row the callback data it was sent. *)

LoopUsers == {1, 2}

\* the thread is inside the blocking acquire of threading.Lock
LoopBlocked == Len(db_lock) > 1

\* updates are handled one after another: no handler is under way
LoopIdle == \A u \in LoopUsers : pc[u].at = "ready"

ReportCallbacks == {[h |-> "report_phase_", a |-> a] : a \in PhasePicks \cup {<<"all">>}}

LoopCallbacks ==
    ReportCallbacks \cup {[h |-> "view_risk_", a |-> py_str(<<i>>)] : i \in RiskIds}

\* the header and the total of the report on a phase, or on all phases
report_prompt(phase, table) ==
    Prompt("Otchet po riskam", 
           <<phase, Cardinality({i \in DOMAIN table :
                                   phase = <<>> \/ table[i]["phase"] = phase})>>,
           << Btn(<<"Vybrat druguyu fazu">>, "select_report_phase", <<>>),
              Btn(<<"Vernutsya v menyu">>, "back_to_", <<"menu">>),
              Btn(<<"Eksport v Excel">>, "export_excel", <<>>) >>)

report_failed_prompt ==
    Prompt("Proizoshla oshibka pri formirovanii otcheta. Pozhaluysta, poprobuyte pozzhe.",
           <<>>, create_back_keyboard("menu"))

risk_details_failed_prompt ==
    Prompt("Proizoshla oshibka pri poluchenii detaley riska.", <<>>,
           create_back_keyboard("menu"))

\* the handler of a callback up to await query.answer()
callback_answer(u, tok) ==
    /\ ~LoopBlocked
    /\ LoopIdle
    /\ pc' = [pc EXCEPT ![u] = [at |-> "answer", row |-> <<tok>>]]
    /\ UNCHANGED <<user_data, screen, risks, subscriptions, navs, db_lock, lock_log,
                   additional_mitigations, reminder_vars>>

\* show_phase_report from query.answer() to the await of edit_message_text,
\* which is inside the with block: the coroutine is suspended holding db_lock;
\* a statement that raises leaves the block for the except branch
show_phase_report_query(u, ok) ==
    /\ ~LoopBlocked
    /\ pc[u].at = "answer"
    /\ pc[u].row[1].h = "report_phase_"
    /\ IF can_acquire(db_lock)
       THEN /\ db_lock' = IF ok THEN <<"show_phase_report">> ELSE db_lock
            /\ pc' = [pc EXCEPT ![u].at = IF ok THEN "edit_in_with" ELSE "except"]
       ELSE /\ db_lock' = Append(db_lock, "show_phase_report")
            /\ pc' = pc
    /\ UNCHANGED <<user_data, screen, risks, subscriptions, navs, lock_log,
                   additional_mitigations, reminder_vars>>

\* view_risk_details from query.answer() to its next await: edit_message_text
\* inside the with block when the risk is not found, after it otherwise
view_risk_details_query(u, ok) ==
    /\ ~LoopBlocked
    /\ pc[u].at = "answer"
    /\ pc[u].row[1].h = "view_risk_"
    /\ LET risk_id == py_int(pc[u].row[1].a)[1]
           found == {i \in DOMAIN risks : risks[i]["id"] = risk_id}
       IN  IF can_acquire(db_lock)
           THEN /\ db_lock' = IF ok /\ found = {} THEN <<"view_risk_details">> ELSE db_lock
                /\ pc' = [pc EXCEPT ![u].at = IF ~ok THEN "except"
                                              ELSE IF found = {} THEN "edit_in_with"
                                              ELSE "edit"]
           ELSE /\ db_lock' = Append(db_lock, "view_risk_details")
                /\ pc' = pc
    /\ UNCHANGED <<user_data, screen, risks, subscriptions, navs, lock_log,
                   additional_mitigations, reminder_vars>>

\* what the handler under way at u edits the message to
edited_prompt(u) ==
    LET tok == pc[u].row[1]
        found == {i \in DOMAIN risks : risks[i]["id"] = py_int(tok.a)[1]}
    IN  IF tok.h = "report_phase_"
        THEN report_prompt(IF tok.a = <<"all">> THEN <<>> ELSE <<tok.a>>, risks)
        ELSE IF found = {} THEN risk_not_found_prompt
        ELSE risk_details_prompt(risks[CHOOSE i \in found : TRUE],
                                 mitigations_of(risks[CHOOSE i \in found : TRUE]["id"]))

\* edit_message_text returns or raises and the coroutine goes on: out of the
\* with block, which releases db_lock, to the return or to the except branch
edit_message_text_done(u, ok) ==
    /\ ~LoopBlocked
    /\ pc[u].at \in {"edit_in_with", "edit"}
    /\ db_lock' = IF pc[u].at = "edit_in_with" THEN <<>> ELSE db_lock
    /\ screen' = IF ok THEN [screen EXCEPT ![u] = edited_prompt(u)] ELSE screen
    /\ pc' = [pc EXCEPT ![u] = IF ok THEN [at |-> "ready", row |-> <<>>]
                               ELSE [@ EXCEPT !.at = "except"]]
    /\ UNCHANGED <<user_data, risks, subscriptions, navs, lock_log,
                   additional_mitigations, reminder_vars>>

\* the except branch: the message is edited to the error text
except_done(u) ==
    /\ ~LoopBlocked
    /\ pc[u].at = "except"
    /\ screen' = [screen EXCEPT ![u] = IF pc[u].row[1].h = "report_phase_"
                                       THEN report_failed_prompt
                                       ELSE risk_details_failed_prompt]
    /\ pc' = [pc EXCEPT ![u] = [at |-> "ready", row |-> <<>>]]
    /\ UNCHANGED <<user_data, risks, subscriptions, navs, db_lock, lock_log,
                   additional_mitigations, reminder_vars>>

\* the coroutine send_daily_reminder at a db_connection() with the lock held
\* by another coroutine: the thread waits in the acquire
send_daily_reminder_waits ==
    /\ db_lock' = Append(db_lock, "send_daily_reminder")
    /\ UNCHANGED <<user_data, screen, risks, subscriptions, navs, pc, lock_log,
                   additional_mitigations, reminder_vars>>

\* the job queue runs send_daily_reminder on the loop: get_subscribed_users
job_begin ==
    /\ ~LoopBlocked
    /\ IF can_acquire(db_lock)
       THEN \E ok \in DbOutcomes : send_daily_reminder_begin(ok)
       ELSE ~job.active /\ job.run < MaxRuns /\ send_daily_reminder_waits

\* one pass of the loop of send_daily_reminder, which starts with a SELECT
job_next ==
    /\ ~LoopBlocked
    /\ IF can_acquire(db_lock)
       THEN \E outcome \in ReminderOutcomes : send_daily_reminder_next(outcome)
       ELSE job.active /\ Len(job.done) < Len(job.batch) /\ send_daily_reminder_waits

job_end == ~LoopBlocked /\ send_daily_reminder_end

InitLoop ==
    /\ user_data = [u \in LoopUsers |-> EmptyData]
    /\ screen = [u \in LoopUsers |-> welcome_prompt(TRUE, TRUE)]
    /\ risks \in {<<>>, <<risk_row(1, 1, ReadyDraft(1), risk_score(ReadyDraft(1)))>>}
    /\ subscriptions = [u \in LoopUsers |-> <<[is_subscribed |-> 1, last_notification |-> <<>>]>>]
    /\ navs = 0
    /\ db_lock = <<>>
    /\ pc = [u \in LoopUsers |-> [at |-> "ready", row |-> <<>>]]
    /\ lock_log = <<>>
    /\ additional_mitigations = <<>>
    /\ today = 1
    /\ sent = <<>>
    /\ job = NoJob

NextLoop ==
    \/ \E u \in LoopUsers :
          \/ \E tok \in LoopCallbacks : callback_answer(u, tok)
          \/ \E ok \in DbOutcomes : show_phase_report_query(u, ok)
          \/ \E ok \in DbOutcomes : view_risk_details_query(u, ok)
          \/ \E ok \in DbOutcomes : edit_message_text_done(u, ok)
          \/ except_done(u)
    \/ job_begin
    \/ job_next
    \/ job_end

SpecLoop == InitLoop /\ [][NextLoop]_vars

----------------------------------------------------------------------------
(* Two users at once: the application keeps one user_data dictionary per
   user and hands each handler the one of the user whose update it handles.
   Each user types a word, a triple or a percentage and presses the buttons
   of the prompt in front of them; the second user goes as far as the cost
   impact step while the first goes through the whole workflow. *)

PairUsers == {1, 2}

PairTexts == { <<"1", "0", ",", " ", "2", "0", ",", " ", "3", "0">>, <<"8", "0">> }

CommandsPair(u) == IF Active /\ screen[u] = NoPrompt THEN {"/start"} ELSE {}

\* the buttons of the first steps of the workflow
FirstSteps == {"submit_risk", "phase_", "object_", "cat_", "no_impact_schedule",
               "evaluate_schedule_impact", "back_to_"}

PressablePair(u) ==
    IF ~Active THEN {}
    ELSE {tok \in Offered(u) :
            /\ Picked(tok)
            /\ u # 1 => tok.h \in FirstSteps
            /\ tok.h = "back_to_" => (tok.a # <<"menu">> /\ navs < 1 + MaxBacks)}

TextOffersPair(u) ==
    IF ~Active THEN {}
    ELSE IF TextRoute(user_data[u]) \in NumericMarkers THEN PairTexts
    ELSE Words

InitPair ==
    /\ user_data = [u \in PairUsers |-> EmptyData]
    /\ screen = [u \in PairUsers |-> NoPrompt]
    /\ risks = <<>>
    /\ subscriptions = [u \in PairUsers |-> <<>>]
    /\ navs = 0
    /\ db_lock = <<>>
    /\ pc = [u \in PairUsers |-> [at |-> "ready", row |-> <<>>]]
    /\ lock_log = <<>>
    /\ additional_mitigations = <<>>
    /\ today = 1
    /\ sent = <<>>
    /\ job = NoJob

NextPair ==
    \E u \in PairUsers :
        \/ \E c \in CommandsPair(u) : start(u)
        \/ \E tok \in PressablePair(u) : on_callback_listed(u, tok)
        \/ \E m \in TextOffersPair(u) : handle_text_listed(u, m)

SpecPair == InitPair /\ [][NextPair]_vars

----------------------------------------------------------------------------
(* The three scale functions called on their own: pc[u].row holds the
   argument of the call and, once the functions have returned, the argument
   followed by the results of get_cost_score, get_schedule_score and
   get_probability_score. *)

MaxImpact == 1010

MaxNegative == 20

ScoreInputs == (0 - MaxNegative)..MaxImpact

score(u) ==
    /\ pc[u].at = "call"
    /\ LET x == pc[u].row[1]
       IN  pc' = [pc EXCEPT ![u] = [at |-> "return",
                                    row |-> <<x, get_cost_score(x), get_schedule_score(x),
                                              get_probability_score(x)>>]]
    /\ UNCHANGED <<user_data, screen, risks, subscriptions, navs, db_lock, lock_log,
                   additional_mitigations, reminder_vars>>

InitScore ==
    /\ user_data = [u \in Users |-> EmptyData]
    /\ screen = [u \in Users |-> NoPrompt]
    /\ risks = <<>>
    /\ subscriptions = [u \in Users |-> <<>>]
    /\ navs = 0
    /\ db_lock = <<>>
    /\ pc \in [Users -> {[at |-> "call", row |-> <<x>>] : x \in ScoreInputs}]
    /\ lock_log = <<>>
    /\ additional_mitigations = <<>>
    /\ today = 1
    /\ sent = <<>>
    /\ job = NoJob

NextScore == \E u \in Users : score(u)

SpecScore == InitScore /\ [][NextScore]_vars

----------------------------------------------------------------------------
(* The forward path: one user goes through the workflow once, from /start to
   the commit, pressing no back button; any probability band is chosen and
   the numbers typed reach from the lowest to the highest bucket of the
   scales. *)

ForwardTexts ==
    { <<"1", "0", "0", " ", "3", "0", "0", " ", "9", "0", "0">>,
      <<"1", "0", "0", "0", " ", "1", "0", "0", "0", " ", "1", "0", "0", "0">>,
      <<"5">>,
      <<"8", "0">> }

CommandsForward(u) == IF Active /\ screen[u] = NoPrompt THEN {"/start"} ELSE {}

PressableForward(u) ==
    IF ~Active THEN {}
    ELSE {tok \in Offered(u) :
            /\ tok.h = "phase_" => tok.a \in PhasePicks
            /\ tok.h = "object_" => tok.a \in ObjectPicks
            /\ tok.h = "cat_" => tok.a \in CategoryPicks
            /\ tok.h # "back_to_"}

TextOffersForward(u) ==
    IF ~Active THEN {}
    ELSE IF TextRoute(user_data[u]) \in NumericMarkers THEN ForwardTexts
    ELSE Words

NextForward ==
    \E u \in Users :
        \/ \E c \in CommandsForward(u) : start(u)
        \/ \E tok \in PressableForward(u) : on_callback_listed(u, tok)
        \/ \E m \in TextOffersForward(u) : handle_text_listed(u, m)

SpecForward == Init /\ [][NextForward]_vars

----------------------------------------------------------------------------
(* SpecView: the list of the stored risks, its phase filter and its pages. *)
(* A callback token of the list is the text of callback_data: the pattern  *)
(* prefix followed by the argument.                                        *)

MAX_RISKS_PER_MESSAGE == 30

\* the characters of callback_data
callback_data(tok) ==
    (CASE tok.h = "view_phase_" -> <<"view", "_", "phase", "_">>
       [] tok.h = "view_risks_page_" -> <<"view", "_", "risks", "_", "page", "_">>
       [] OTHER -> <<tok.h>>) \o tok.a

\* str.split(sep, maxsplit)
RECURSIVE py_split(_, _, _)
py_split(text, sep, maxsplit) ==
    LET at == {i \in DOMAIN text : text[i] = sep}
    IN  IF maxsplit = 0 \/ at = {} THEN <<text>>
        ELSE LET i == CHOOSE i \in at : \A j \in at : i <= j
             IN  <<SubSeq(text, 1, i - 1)>>
                 \o py_split(SubSeq(text, i + 1, Len(text)), sep, maxsplit - 1)

view_phase_prompt ==
    Prompt("Vyberite fazu dlya prosmotra riskov:", <<>>,
           [i \in DOMAIN PHASES |-> Btn(PHASES[i], "view_phase_", PHASES[i])]
           \o << Btn(<<"Vse fazy">>, "view_phase_", <<"all">>),
                 Btn(<<"Vernutsya v menyu">>, "back_to_", <<"menu">>) >>)

select_view_phase(u, tok) ==
    /\ tok.h = "view_risks_list"
    /\ Reply(u, user_data[u], view_phase_prompt)

\* a sort that takes the later row first among rows of equal risk_score
scanned_before_reversed(rows, i, j) ==
    \/ rows[i]["risk_score"] > rows[j]["risk_score"]
    \/ rows[i]["risk_score"] = rows[j]["risk_score"] /\ i > j

\* the order of two scanned rows in the result: the query has a LIMIT, so
\* SQLite sorts on the key (risk_score DESC, sequence number of the scan)
scanned_before(rows, i, j) ==
    \/ rows[i]["risk_score"] > rows[j]["risk_score"]
    \/ rows[i]["risk_score"] = rows[j]["risk_score"] /\ i < j

\* ORDER BY risk_score DESC over the rows in the order of the table scan
RECURSIVE order_by_risk_score_desc(_)
order_by_risk_score_desc(rows) ==
    IF rows = <<>> THEN <<>>
    ELSE LET first == CHOOSE i \in DOMAIN rows :
                          \A j \in DOMAIN rows \ {i} : scanned_before(rows, i, j)
         IN  <<rows[first]>>
             \o order_by_risk_score_desc(SubSeq(rows, 1, first - 1)
                                         \o SubSeq(rows, first + 1, Len(rows)))

\* LIMIT ? OFFSET ?: a negative offset counts as none
limit_offset(rows, limit, offset) ==
    LET from == IF offset < 0 THEN 0 ELSE offset
        to == IF from + limit < Len(rows) THEN from + limit ELSE Len(rows)
    IN  SubSeq(rows, from + 1, to)

\* SELECT id, description, risk_score, phase, object
listed(row) == [c \in {"id", "description", "risk_score", "phase", "object"} |-> row[c]]

create_risk_selection_keyboard(rows) ==
    [i \in DOMAIN rows |->
        Btn(<<"#">> \o py_str(<<rows[i]["id"]>>), "view_risk_", py_str(<<rows[i]["id"]>>))]

no_risks_prompt(selected_phase) ==
    Prompt("Net dostupnyh riskov dlya {phase_text}.", selected_phase,
           create_back_keyboard("view_phase_selection"))

list_failed_prompt ==
    Prompt("Proizoshla oshibka pri poluchenii spiska riskov.", <<>>,
           create_back_keyboard("menu"))

\* the page of the list: its lines and, below the buttons of the risks,
\* the buttons of the neighbouring pages
risks_list_prompt(selected_phase, page, total_risks, rows) ==
    LET total_pages == (total_risks + MAX_RISKS_PER_MESSAGE - 1) \div MAX_RISKS_PER_MESSAGE
        previous == IF total_pages > 1 /\ page > 1
                    THEN << Btn(<<"Nazad">>, "view_risks_page_",
                                py_str(<<page - 1>>) \o <<"_">> \o selected_phase) >>
                    ELSE <<>>
        following == IF total_pages > 1 /\ page < total_pages
                     THEN << Btn(<<"Dalee">>, "view_risks_page_",
                                 py_str(<<page + 1>>) \o <<"_">> \o selected_phase) >>
                     ELSE <<>>
    IN  Prompt(IF total_pages > 1 THEN "Spisok riskov ({phase_text}, stranica {page}/{total_pages}):"
                                  ELSE "Spisok vseh riskov ({phase_text}):",
               [phase |-> selected_phase,
                page |-> IF total_pages > 1 THEN <<page, total_pages>> ELSE <<>>,
                total |-> total_risks,
                risks |-> [i \in DOMAIN rows |-> listed(rows[i])]],
               create_risk_selection_keyboard(rows) \o previous \o following
               \o << Btn(<<"Drugaya faza">>, "view_risks_list", <<>>),
                     Btn(<<"Vernutsya v menyu">>, "back_to_", <<"menu">>) >>)

\* the filter view_risks_list reads from callback_data or from user_data
selected_phase_of(d, tok) ==
    IF tok.h = "view_phase_" THEN py_split(callback_data(tok), "_", 2)[3]
    ELSE Get(d, "selected_view_phase", <<"all">>)

\* the rows of the page view_risks_list shows for the data d
page_rows(d, selected_phase) ==
    LET matching == IF selected_phase = <<"all">> THEN risks
                    ELSE SelectSeq(risks, LAMBDA row : row["phase"] = <<selected_phase>>)
    IN  limit_offset(order_by_risk_score_desc(matching), MAX_RISKS_PER_MESSAGE,
                     (Get(d, "view_risks_page", 1) - 1) * MAX_RISKS_PER_MESSAGE)

\* view_risks_list on the data d: ok is the outcome of the queries
view_risks_list_on(u, d, tok, ok) ==
    LET selected_phase == selected_phase_of(d, tok)
        stored == IF tok.h = "view_phase_" THEN Put(d, "selected_view_phase", selected_phase)
                  ELSE d
        total_risks == IF selected_phase = <<"all">> THEN Len(risks)
                       ELSE Len(SelectSeq(risks, LAMBDA row : row["phase"] = <<selected_phase>>))
        rows == page_rows(stored, selected_phase)
    IN  Reply(u, stored,
              IF ~ok THEN list_failed_prompt
              ELSE IF rows = <<>> THEN no_risks_prompt(selected_phase)
              ELSE risks_list_prompt(selected_phase, Get(stored, "view_risks_page", 1),
                                     total_risks, rows))

view_risks_list(u, tok, ok) ==
    /\ tok.h = "view_phase_"
    /\ view_risks_list_on(u, user_data[u], tok, ok)

\* the page and the filter handle_view_risks_page reads from the token:
\* <<>> when int() raises
page_and_phase(d, tok) ==
    LET parts == py_split(callback_data(tok), "_", 3)
    IN  IF Len(parts) >= 4
        THEN IF py_int(parts[4]) = <<>> THEN <<>>
             ELSE << [page |-> py_int(parts[4])[1],
                      selected_phase |-> IF Len(parts) > 4 THEN parts[5] ELSE <<"all">>] >>
        ELSE << [page |-> 1, selected_phase |-> Get(d, "selected_view_phase", <<"all">>)] >>

\* an exception of int() leaves the handler before anything is stored or shown
handle_view_risks_page(u, tok, ok) ==
    /\ tok.h = "view_risks_page_"
    /\ LET read == page_and_phase(user_data[u], tok)
       IN  IF read = <<>> THEN UNCHANGED vars
           ELSE view_risks_list_on(u, Put(Put(user_data[u], "view_risks_page", read[1].page),
                                          "selected_view_phase", read[1].selected_phase),
                                   tok, ok)

back_to_view_phase_selection(u, tok) ==
    /\ tok.h = "back_to_"
    /\ tok.a = <<"view_phase_selection">>
    /\ Reply(u, PopAll(user_data[u], ViewKeys), view_phase_prompt)

\* the rows of a table of SpecView
MaxListed == 2

ViewPhases == {<<"3">>, <<"KPRA">>}

ViewLevels == {1, 5}

stored_risk(id, phase, level) ==
    risk_row(id, 1, Put(ReadyDraft(level), "phase", phase),
             risk_score(Put(ReadyDraft(level), "phase", phase)))

\* the tables of up to MaxListed risks, and the tables of one phase that
\* fill more than a page
small_table(n, f) == [i \in 1..n |-> stored_risk(i, f[i][1], f[i][2])]

ViewTables ==
    UNION {{small_table(n, f) : f \in [1..n -> ViewPhases \X ViewLevels]} : n \in 0..MaxListed}
    \cup {[i \in 1..(MAX_RISKS_PER_MESSAGE + 1) |->
              stored_risk(i, phase, IF i % 2 = 0 THEN 1 ELSE 5)] : phase \in ViewPhases}

CommandsView(u) == IF navs < MaxMenus THEN {"/start"} ELSE {}

\* the user presses the buttons of the most recently rendered prompt
PressableView(u) ==
    {tok \in Offered(u) :
        /\ tok.h \in {"view_risks_list", "view_phase_", "view_risks_page_", "view_risk_",
                      "back_to_"}
        /\ tok.h = "back_to_" => (tok.a = <<"menu">> => navs < MaxMenus)}

on_callback_view(u, tok) ==
    \/ select_view_phase(u, tok)
    \/ \E ok \in DbOutcomes : view_risks_list(u, tok, ok)
    \/ view_risk_details(u, tok)
    \/ /\ tok.a = <<"menu">>
       /\ handle_back(u, tok)
    \/ back_to_view_phase_selection(u, tok)
    \/ \E ok \in DbOutcomes : handle_view_risks_page(u, tok, ok)

InitView ==
    /\ user_data = [u \in Users |-> EmptyData]
    /\ screen = [u \in Users |-> NoPrompt]
    /\ risks \in ViewTables
    /\ subscriptions = [u \in Users |-> <<>>]
    /\ navs = 0
    /\ db_lock = <<>>
    /\ pc = [u \in Users |-> [at |-> "ready", row |-> <<>>]]
    /\ lock_log = <<>>
    /\ additional_mitigations = <<>>
    /\ today = 1
    /\ sent = <<>>
    /\ job = NoJob

NextView ==
    \E u \in Users :
        \/ \E c \in CommandsView(u) : start(u)
        \/ \E tok \in PressableView(u) : on_callback_view(u, tok)

SpecView == InitView /\ [][NextView]_vars

----------------------------------------------------------------------------
(* SpecOverlap: two invocations of send_daily_reminder on the event loop.  *)
(* An invocation runs from one await to the next: it is suspended only in  *)
(* await context.bot.send_message, between the SELECT of a subscriber and   *)
(* the UPDATE of that subscriber.  In this specification job holds one      *)
(* record per invocation, and the statements on subscriptions are taken to  *)
(* succeed.                                                                 *)

Invocations == {1, 2}

\* the subscriber whose send_message an invocation is suspended in
suspended_for(j) == j.batch[Len(j.done) + 1]

\* the for loop up to its next await: the subscribers whose last_notification
\* is the date are passed over, the first other one is sent the reminder
RECURSIVE run_to_send(_, _, _)
run_to_send(j, subs, date) ==
    IF Len(j.done) = Len(j.batch) THEN [j EXCEPT !.active = FALSE]
    ELSE IF subs[suspended_for(j)][1].last_notification = <<date>>
         THEN run_to_send(job_after(j, "skipped"), subs, date)
    ELSE j

\* an invocation starts: get_subscribed_users, then the loop up to its first await
invocation_begin(i) ==
    /\ job[i].run = 0
    /\ job' = [job EXCEPT ![i] =
                  run_to_send([run |-> 1, batch |-> get_subscribed_users(subscriptions),
                               done |-> <<>>, active |-> TRUE],
                              subscriptions, today)]
    /\ UNCHANGED <<user_data, screen, risks, subscriptions, navs, lock_vars,
                   additional_mitigations, today, sent>>

\* send_message returns or raises, and the invocation runs to its next await
invocation_resume(i, delivered) ==
    /\ job[i].active
    /\ LET u == suspended_for(job[i])
           result == IF delivered THEN "ok" ELSE "send_failed"
           subs == subscriptions_after(subscriptions, u, result, today)
       IN  /\ subscriptions' = subs
           /\ job' = [job EXCEPT ![i] = run_to_send(job_after(job[i], result), subs, today)]
           /\ IF delivered
              THEN /\ sent' = Append(sent, [user |-> u, date |-> today])
                   /\ screen' = [screen EXCEPT ![u] = reminder_prompt(today)]
              ELSE UNCHANGED <<sent, screen>>
    /\ UNCHANGED <<user_data, risks, navs, lock_vars, additional_mitigations, today>>

InitOverlap ==
    /\ user_data = [u \in ReminderUsers |-> EmptyData]
    /\ screen = [u \in ReminderUsers |-> NoPrompt]
    /\ risks = <<>>
    /\ subscriptions = [u \in ReminderUsers |-> <<>>]
    /\ navs = 0
    /\ db_lock = <<>>
    /\ pc = [u \in ReminderUsers |-> [at |-> "ready", row |-> <<>>]]
    /\ lock_log = <<>>
    /\ additional_mitigations = <<>>
    /\ today = 1
    /\ sent = <<>>
    /\ job = [i \in Invocations |-> NoJob]

NextOverlap ==
    \/ \E u \in ReminderUsers :
          \/ navs < MaxMenus /\ start(u)
          \/ subscribe(u)
          \/ unsubscribe(u)
          \/ /\ navs < MaxMenus
             /\ \E tok \in Offered(u) : toggle_subscription(u, tok)
    \/ \E i \in Invocations : invocation_begin(i)
    \/ \E i \in Invocations, delivered \in BOOLEAN : invocation_resume(i, delivered)

SpecOverlap == InitOverlap /\ [][NextOverlap]_vars

----------------------------------------------------------------------------
(* SpecLive: the user of Spec keeps answering.  The user may still send a  *)
(* text the step rejects and may go back MaxBacks times, but goes on to     *)
(* answer the displayed prompt with an input that is valid for it: a button *)
(* other than back, or a text of the kind the prompt asks for.              *)

\* the prompts that ask for three numbers, for a percentage and for a text
TriplePromptTexts ==
    {p.text.id : p \in {schedule_values_prompt, cost_values_prompt, schedule_values_re_prompt,
                        cost_values_re_prompt, order_error_prompt(<<>>),
                        format_error_prompt(<<>>)}}

PercentPromptTexts ==
    {p.text.id : p \in {custom_probability_prompt, custom_probability_re_prompt,
                        range_error_prompt(<<>>)}}

WordPromptTexts ==
    {p.text.id : p \in {custom_phase_prompt, custom_object_prompt, custom_category_prompt,
                        description_prompt(<<>>), timeline_prompt, mitigation_prompt,
                        expected_result_prompt}}

\* the texts handle_schedule_values and its twins accept
ValidTriples ==
    {m \in NumericTexts :
        /\ parse_three_values(m) # <<>>
        /\ parse_three_values(m)[1][1] <= parse_three_values(m)[1][2]
        /\ parse_three_values(m)[1][2] <= parse_three_values(m)[1][3]}

\* the texts handle_custom_probability and its twin accept
ValidPercents == {m \in NumericTexts : custom_probability(m) # <<>>}

\* the texts that are valid answers to the prompt p
ValidTexts(p) ==
    IF p.text.id \in TriplePromptTexts THEN ValidTriples
    ELSE IF p.text.id \in PercentPromptTexts THEN ValidPercents
    ELSE IF p.text.id \in WordPromptTexts THEN Words
    ELSE {}

\* the backs of the user of SpecLive
MaxLiveBacks == 1

CommandsLive(u) == IF Active /\ screen[u] = NoPrompt THEN {"/start"} ELSE {}

PressableLive(u) ==
    IF ~Active THEN {}
    ELSE {tok \in Offered(u) :
            /\ Picked(tok)
            /\ tok.h = "back_to_" => (tok.a # <<"menu">> /\ navs < 1 + MaxLiveBacks)}

\* a text is sent when the displayed prompt asks for one
TextOffersLive(u) ==
    IF ~Active THEN {}
    ELSE IF screen[u].text.id \in TriplePromptTexts \cup PercentPromptTexts
         THEN NumericTexts \cup Words
    ELSE IF screen[u].text.id \in WordPromptTexts THEN Words
    ELSE {}

\* a valid answer to the displayed prompt
ValidAnswer ==
    \E u \in Users :
        \/ \E c \in CommandsLive(u) : start(u)
        \/ \E tok \in PressableLive(u) : tok.h # "back_to_" /\ on_callback(u, tok)
        \/ \E m \in TextOffersLive(u) \cap ValidTexts(screen[u]) : handle_text(u, m)

NextLive ==
    \E u \in Users :
        \/ \E c \in CommandsLive(u) : start(u)
        \/ \E tok \in PressableLive(u) : on_callback(u, tok)
        \/ \E m \in TextOffersLive(u) : handle_text(u, m)

SpecLive == Init /\ [][NextLive]_vars /\ WF_vars(ValidAnswer)

----------------------------------------------------------------------------
(* The properties *)

Texts == NumericTexts \cup Words

BackTokens == {[h |-> "back_to_", a |-> <<point>>] : point \in ReturnPoints}

Committed == Len(risks') = Len(risks) + 1

\* the user whose draft the last row was written from
Committer == risks'[Len(risks')]["user_id"]

\* the fields every submission enters at a step of its own
RequiredKeys == TextKeys \cup {"probability"}

\* C1: every record committed by save_risk comes from a draft in which phase,
\* object, category, description, probability, timeline, mitigation and
\* expected_result are all set: none is absent or taken from the default 0.
C1_CommittedDraftIsComplete ==
    [][Committed => \A k \in RequiredKeys : user_data'[Committer][k] # <<>>]_vars

\* C2: after save_risk has committed a record no draft field remains set in
\* the session state of the user who committed it.
C2_DraftClearedByCommit ==
    [][Committed => \A k \in DraftKeys : user_data'[Committer][k] = <<>>]_vars

\* C3: after the button back_to_menu or the button submit_risk no draft field
\* and no awaiting_* marker remains set.
C3_NothingLeftAfterMenuOrSubmit ==
    [][\A u \in Users :
          (\/ submit_risk_start(u, [h |-> "submit_risk", a |-> <<>>])
           \/ handle_back(u, [h |-> "back_to_", a |-> <<"menu">>]))
          => user_data'[u] = EmptyData]_vars

\* the steps of the forward path in their order, each with the return point
\* that leads back to it and the keys it sets
Steps ==
    << [point |-> "phase_selection", keys |-> {"phase", "awaiting_custom_phase"}],
       [point |-> "object_selection", keys |-> {"object", "awaiting_custom_object"}],
       [point |-> "category_selection", keys |-> {"category", "awaiting_custom_category"}],
       [point |-> "description", keys |-> {"description", "awaiting_description"}],
       [point |-> "schedule_impact",
        keys |-> ScheduleKeys \cup {"needs_schedule_evaluation", "awaiting_schedule_values"}],
       [point |-> "cost_impact",
        keys |-> CostKeys \cup {"needs_cost_evaluation", "awaiting_cost_values"}],
       [point |-> "probability", keys |-> {"probability", "awaiting_custom_probability"}],
       [point |-> "timeline", keys |-> {"timeline", "awaiting_timeline"}],
       [point |-> "mitigation_choice", keys |-> {"reevaluation_needed"}],
       [point |-> "mitigation", keys |-> {"mitigation", "awaiting_mitigation"}],
       [point |-> "mitigation_result", keys |-> {"expected_result", "awaiting_expected_result"}],
       [point |-> "schedule_impact_re",
        keys |-> ScheduleReKeys
                 \cup {"needs_schedule_evaluation_re", "awaiting_schedule_values_re"}],
       [point |-> "cost_impact_re",
        keys |-> CostReKeys \cup {"needs_cost_evaluation_re", "awaiting_cost_values_re"}],
       [point |-> "probability_re",
        keys |-> {"probability_re", "awaiting_custom_probability_re", "risk_score"}] >>

\* the marker that is set when the forward path arrives at a free-text step
ArrivalMarker(point) ==
    CASE point = "description" -> {"awaiting_description"}
      [] point = "timeline" -> {"awaiting_timeline"}
      [] point = "mitigation" -> {"awaiting_mitigation"}
      [] point = "mitigation_result" -> {"awaiting_expected_result"}
      [] OTHER -> {}

\* the keys set at the step of a return point or at a later step
KeysFrom(point) ==
    UNION {Steps[j].keys : j \in {j \in DOMAIN Steps :
                                     \E i \in 1..j : Steps[i].point = point}}

\* C4: after the back action to a return point every draft field and every
\* awaiting_* marker set at or after that step is unset, except the marker
\* of the return step itself.
C4_BackRestoresArrivalState ==
    [][\A u \in Users : \A tok \in BackTokens :
          (tok.a # <<"menu">> /\ handle_back(u, tok))
          => \A k \in KeysFrom(tok.a[1]) \ ArrivalMarker(tok.a[1]) : user_data'[u][k] = <<>>]_vars

\* the texts of the prompts of the steps answered with a button
ButtonChoiceTexts ==
    {p.text.id : p \in
        {phase_prompt, object_prompt(<<>>), category_prompt(<<>>, "svoy"),
         category_prompt(<<>>, "svoyu"), schedule_prompt(TRUE), schedule_prompt(FALSE),
         cost_prompt(TRUE), cost_prompt(FALSE), probability_prompt("50-75%"),
         mitigation_choice_prompt, schedule_re_prompt(TRUE), schedule_re_prompt(FALSE),
         cost_re_prompt, probability_re_prompt, welcome_prompt(TRUE, TRUE),
         welcome_prompt(FALSE, TRUE)}}

\* C5: a free-text message sent while the most recently rendered prompt is a
\* button-choice step changes no draft field.
C5_TextOnButtonPromptChangesNothing ==
    [][\A u \in Users : \A m \in Texts :
          (screen[u].text.id \in ButtonChoiceTexts /\ handle_text(u, m))
          => \A k \in DraftKeys : user_data'[u][k] = user_data[u][k]]_vars

PreMitigationScore(row) ==
    get_cost_score(row["impact_cost_most_likely"])
    + get_schedule_score(row["impact_schedule_most_likely"])
    + get_probability_score(row["probability"])

PostMitigationScore(row) ==
    get_cost_score(row["impact_cost_most_likely_re"])
    + get_schedule_score(row["impact_schedule_most_likely_re"])
    + get_probability_score(row["probability_re"])

\* C6: the risk_score of every committed record is the sum of the cost,
\* schedule and probability scores of that record's pre-mitigation fields,
\* whatever its _re fields hold.
C6_ScoreFromPreMitigationFields ==
    \A i \in DOMAIN risks : risks[i]["risk_score"] = PreMitigationScore(risks[i])

\* a record with a re-evaluation whose post-mitigation figures score differently
C6_Witness ==
    \E i \in DOMAIN risks :
        /\ risks[i]["reevaluation_needed"] = 1
        /\ PreMitigationScore(risks[i]) # PostMitigationScore(risks[i])

\* the four steps that read a triple: the marker, the fields, the return
\* point of the back button
TripleSteps ==
    { [marker |-> "awaiting_schedule_values", kmin |-> "impact_schedule_min",
       kml |-> "impact_schedule_most_likely", kmax |-> "impact_schedule_max",
       point |-> "schedule_impact"],
      [marker |-> "awaiting_cost_values", kmin |-> "impact_cost_min",
       kml |-> "impact_cost_most_likely", kmax |-> "impact_cost_max",
       point |-> "cost_impact"],
      [marker |-> "awaiting_schedule_values_re", kmin |-> "impact_schedule_min_re",
       kml |-> "impact_schedule_most_likely_re", kmax |-> "impact_schedule_max_re",
       point |-> "schedule_impact_re"],
      [marker |-> "awaiting_cost_values_re", kmin |-> "impact_cost_min_re",
       kml |-> "impact_cost_most_likely_re", kmax |-> "impact_cost_max_re",
       point |-> "cost_impact_re"] }

\* the integers written in a message, left to right
IntegersOf(m) == [i \in DOMAIN findall(m, 1) |-> py_int(findall(m, 1)[i])[1]]

AcceptableTriple(m) ==
    /\ Len(IntegersOf(m)) >= 3
    /\ IntegersOf(m)[1] <= IntegersOf(m)[2]
    /\ IntegersOf(m)[2] <= IntegersOf(m)[3]

IsPercent(m) == py_int(m) # <<>> /\ py_int(m)[1] \in 0..100

\* C8: at the entry of a custom probability, before or after mitigation, a
\* message that is not an integer in [0,100] is answered with the request to
\* enter one and changes nothing in the session: probability (probability_re)
\* stays unset when it was unset and the marker stays set;
\* probability and probability_re of every committed record lie in [0,100].
C8_CustomProbability ==
    [][/\ \A u \in Users :
             Routed(user_data[u], "awaiting_custom_probability") => \A m \in Texts :
             (~IsPercent(m) /\ handle_text(u, m))
             => /\ user_data'[u] = user_data[u]
                /\ user_data[u]["probability"] = <<>> => user_data'[u]["probability"] = <<>>
                /\ screen'[u] = range_error_prompt("probability")
       /\ \A u \in Users :
             Routed(user_data[u], "awaiting_custom_probability_re") => \A m \in Texts :
             (~IsPercent(m) /\ handle_text(u, m))
             => /\ user_data'[u] = user_data[u]
                /\ user_data[u]["probability_re"] = <<>> => user_data'[u]["probability_re"] = <<>>
                /\ screen'[u] = range_error_prompt("probability_re")
       /\ \A i \in DOMAIN risks' :
             /\ risks'[i]["probability"] \in 0..100
             /\ risks'[i]["probability_re"] \in 0..100]_vars

\* a typed probability was accepted before mitigation and one has just been
\* rejected after mitigation, where probability_re is unset
C8_Witness ==
    \E u \in Users :
        /\ screen[u] = range_error_prompt("probability_re")
        /\ user_data[u]["probability"] = <<80>>
        /\ user_data[u]["probability_re"] = <<>>
        /\ Truthy(user_data[u], "awaiting_custom_probability_re")

Ordered(t) == t[1] <= t[2] /\ t[2] <= t[3]

Triples == {<<st.kmin, st.kml, st.kmax>> : st \in TripleSteps}

\* C9: in every draft and in every committed record each of the four impact
\* triples, when set, satisfies min <= most_likely <= max.
C9_TriplesOrdered ==
    /\ \A u \in Users : \A t \in Triples :
          (\A i \in 1..3 : user_data[u][t[i]] # <<>>)
          => Ordered([i \in 1..3 |-> user_data[u][t[i]][1]])
    /\ \A r \in DOMAIN risks : \A t \in Triples :
          Ordered([i \in 1..3 |-> risks[r][t[i]]])

\* a record whose cost triple was typed, after a message with the numbers in
\* the wrong order was possible at the same step
C9_Witness ==
    \E r \in DOMAIN risks :
        /\ risks[r]["impact_cost_min"] = 10
        /\ risks[r]["impact_cost_most_likely"] = 20
        /\ risks[r]["impact_cost_max"] = 30
        /\ risks[r]["impact_schedule_min_re"] = 10

FlaggedTriples ==
    { [flag |-> "needs_schedule_evaluation", keys |-> ScheduleKeys],
      [flag |-> "needs_cost_evaluation", keys |-> CostKeys],
      [flag |-> "needs_schedule_evaluation_re", keys |-> ScheduleReKeys],
      [flag |-> "needs_cost_evaluation_re", keys |-> CostReKeys] }

\* C10: in every committed record a flag needs_*_evaluation = 1 goes with
\* the triple (0,0,0) of the same impact.
C10_DeferralHasZeroTriple ==
    \A r \in DOMAIN risks : \A ft \in FlaggedTriples :
        risks[r][ft.flag] = 1 => \A k \in ft.keys : risks[r][k] = 0

\* the row the step has just inserted
NewRow == risks'[Len(risks')]

\* the prompts of the three steps of the re-evaluation
ScheduleReStep ==
    {schedule_re_prompt(TRUE), schedule_re_prompt(FALSE), schedule_values_re_prompt,
     order_error_prompt("schedule_impact_re"), format_error_prompt("schedule_impact_re")}

CostReStep ==
    {cost_re_prompt, cost_values_re_prompt, order_error_prompt("cost_impact_re"),
     format_error_prompt("cost_impact_re")}

ProbabilityReStep ==
    {probability_re_prompt, custom_probability_re_prompt, range_error_prompt("probability_re")}

\* the user answers the post-mitigation schedule decision
ScheduleReAnswered(u) ==
    \/ \E h \in {"no_impact_schedule_re", "request_schedule_evaluation_re"} :
          \/ no_impact_schedule_re(u, [h |-> h, a |-> <<>>])
          \/ request_schedule_evaluation_re(u, [h |-> h, a |-> <<>>])
    \/ \E m \in Texts : handle_schedule_values_re(u, m) /\ user_data'[u] # user_data[u]

\* the user answers the post-mitigation cost decision
CostReAnswered(u) ==
    \/ \E h \in {"no_impact_cost_re", "request_cost_evaluation_re"} :
          \/ no_impact_cost_re(u, [h |-> h, a |-> <<>>])
          \/ request_cost_evaluation_re(u, [h |-> h, a |-> <<>>])
    \/ \E m \in Texts : handle_cost_values_re(u, m) /\ user_data'[u] # user_data[u]

\* the user answers the post-mitigation probability
ProbabilityReAnswered(u) ==
    \/ \E a \in LevelPicks, ok \in DbOutcomes :
          choose_probability_re(u, [h |-> "prob_re_", a |-> a], ok)
    \/ \E m \in Texts, ok \in DbOutcomes :
          handle_custom_probability_re(u, m, ok) /\ custom_probability(m) # <<>>

\* C11: a record with reevaluation_needed = 1 is committed by the answer to
\* the post-mitigation probability, which is given only after the
\* post-mitigation cost decision, which is given only after the
\* post-mitigation schedule decision, which is given only after the expected
\* result of a draft with reevaluation_needed = 1; a record with
\* reevaluation_needed = 0 is committed by the step that accepts the expected
\* result, and that step renders no prompt of the re-evaluation.
C11_ReevaluationOrder ==
    [][\A u \in Users :
          /\ (Committed /\ Committer = u /\ NewRow["reevaluation_needed"] = 1)
             => ProbabilityReAnswered(u)
          /\ ProbabilityReAnswered(u) => user_data[u]["needs_cost_evaluation_re"] # <<>>
          /\ CostReAnswered(u) => user_data[u]["needs_schedule_evaluation_re"] # <<>>
          /\ ScheduleReAnswered(u)
             => /\ user_data[u]["expected_result"] # <<>>
                /\ user_data[u]["reevaluation_needed"] = <<1>>
          /\ (Committed /\ Committer = u /\ NewRow["reevaluation_needed"] = 0)
             => /\ \E m \in Texts : handle_expected_result(u, m, TRUE)
                /\ screen'[u] \notin ScheduleReStep \cup CostReStep \cup ProbabilityReStep]_vars

\* the columns of a record that hold the re-evaluation
ReColumns ==
    ScheduleReKeys \cup CostReKeys
        \cup {"probability_re", "needs_schedule_evaluation_re", "needs_cost_evaluation_re"}

\* C12: every committed record with reevaluation_needed = 0 has the
\* post-mitigation schedule triple, the post-mitigation cost triple,
\* probability_re and both post-mitigation deferral flags equal to 0, whatever
\* the user submitted before.
C12_NoReevaluationHasZeroReColumns ==
    \A i \in DOMAIN risks :
        risks[i]["reevaluation_needed"] = 0 => \A c \in ReColumns : risks[i][c] = 0

\* after a failed INSERT: no row is added and user u holds draft d, but for risk_score
NothingCommitted(u, d) ==
    /\ risks' = risks
    /\ \A k \in Keys \ {"risk_score"} : user_data'[u][k] = d[k]

\* C13: when the INSERT of save_risk fails, no record is added and every key
\* of the draft but risk_score is left as it was when save_risk was called,
\* for each of the three handlers that call it.
C13_FailedInsertKeepsDraft ==
    [][\A u \in Users :
          /\ \A m \in Texts :
                (handle_expected_result(u, m, FALSE)
                    /\ Get(user_data[u], "reevaluation_needed", 0) # 1)
                => NothingCommitted(u, Put(Put(user_data[u], "expected_result", m),
                                           "awaiting_expected_result", FALSE))
          /\ \A m \in Texts :
                (custom_probability(m) # <<>> /\ handle_custom_probability_re(u, m, FALSE))
                => NothingCommitted(u, Put(Put(user_data[u], "probability_re",
                                               custom_probability(m)[1]),
                                           "awaiting_custom_probability_re", FALSE))
          /\ \A a \in LevelPicks :
                choose_probability_re(u, [h |-> "prob_re_", a |-> a], FALSE)
                => NothingCommitted(u, Put(user_data[u], "probability_re",
                                           probability_of_level(a)[1]))]_vars

\* a draft whose INSERT failed at the expected result, with nothing stored
C13_Witness ==
    \E u \in Users :
        /\ screen[u] = save_failed_prompt
        /\ risks = <<>>
        /\ user_data[u]["risk_score"] # <<>>
        /\ user_data[u]["expected_result"] # <<>>
        /\ user_data[u]["phase"] # <<>>

\* the step is a commit whose INSERT fails
FailedCommit(u) ==
    \/ \E m \in Texts :
          /\ Get(user_data[u], "reevaluation_needed", 0) # 1
          /\ handle_expected_result(u, m, FALSE)
    \/ \E m \in Texts :
          custom_probability(m) # <<>> /\ handle_custom_probability_re(u, m, FALSE)
    \/ \E a \in LevelPicks : choose_probability_re(u, [h |-> "prob_re_", a |-> a], FALSE)

\* what the user can do next calls save_risk: a button of the prompt whose
\* handler does, or a text that handle_text routes to a handler that does
RetryOffered(p, d) ==
    \/ \E i \in DOMAIN p.options : p.options[i].tok.h = "prob_re_"
    \/ /\ TextRoute(d) = "awaiting_expected_result"
       /\ Get(d, "reevaluation_needed", 0) # 1
    \/ TextRoute(d) = "awaiting_custom_probability_re"

\* C14: after a commit whose INSERT failed, whether a text or a button
\* triggered it, the user is shown the failure message and is offered an
\* action that attempts the commit of the kept draft again.
C14_FailureOffersRetry ==
    [][\A u \in Users :
          FailedCommit(u)
          => /\ screen'[u].text = save_failed_prompt.text
             /\ RetryOffered(screen'[u], user_data'[u])]_vars

\* the users inside the critical section of save_risk
InCritical == {u \in DOMAIN pc : pc[u].at \in {"connected", "inserted", "committed", "raised"}}

\* the rows user u has in risks
RowsOf(u) == {i \in DOMAIN risks : risks[i]["user_id"] = u}

\* the place of user u in the order in which db_lock was taken
LockTurn(u) == CHOOSE i \in DOMAIN lock_log : lock_log[i] = u

\* C15: commits of different users are serialized by db_lock: at most one
\* user is inside the critical section and holds the lock; each commit inserts
\* exactly one record, whole, made of that user's draft; the identifiers of
\* the records are distinct and increase in the order the lock was taken.
C15_CommitsSerialized ==
    /\ Cardinality(InCritical) <= 1
    /\ \A u \in InCritical : db_lock = <<u>>
    /\ \A u \in DOMAIN pc :
          Cardinality(RowsOf(u))
            = IF pc[u].at \in {"committed", "closed", "done"} /\ pc[u].row # <<>> THEN 1 ELSE 0
    /\ \A i \in DOMAIN risks :
          LET u == risks[i]["user_id"]
          IN  risks[i] = risk_row(risks[i]["id"], u, user_data[u], risk_score(user_data[u]))
    /\ \A i, j \in DOMAIN risks :
          /\ i # j => risks[i]["id"] # risks[j]["id"]
          /\ LockTurn(risks[i]["user_id"]) < LockTurn(risks[j]["user_id"])
             => risks[i]["id"] < risks[j]["id"]

\* two users have committed, the higher-numbered one first, and a third failed
C15_Witness ==
    /\ Len(risks) = 2
    /\ risks[1]["user_id"] > risks[2]["user_id"]
    /\ \E u \in DOMAIN pc : pc[u].at = "done" /\ pc[u].row = <<>>

\* C16: a step creates at most one record, and no record is created by a
\* user whose last prompt is the confirmation of a commit: after a commit a
\* further record requires a new submission to be started and completed.
C16_OneRecordPerDraft ==
    [][/\ Len(risks') \in {Len(risks), Len(risks) + 1}
       /\ \A u \in Users :
             (Committed /\ Committer = u) => screen[u] # saved_prompt]_vars

\* table is the start of table2
IsPrefix(table, table2) ==
    /\ Len(table) <= Len(table2)
    /\ \A i \in DOMAIN table : table2[i] = table[i]

\* C17: the stored data only grows: every step leaves each row of risks and
\* of additional_mitigations as it was and at its place; a step on a stored
\* risk changes nothing but additional_mitigations, by adding one row.
C17_StoredDataOnlyGrows ==
    [][/\ IsPrefix(risks, risks')
       /\ IsPrefix(additional_mitigations, additional_mitigations')
       /\ Len(additional_mitigations') <= Len(additional_mitigations) + 1]_vars

\* a stored risk with two supplementary mitigations
C17_Witness ==
    /\ Len(risks) = 1
    /\ Len(mitigations_of(risks[1]["id"])) = 2

\* C18: every row of additional_mitigations references a record of risks.
C18_MitigationReferencesRisk ==
    \A i \in DOMAIN additional_mitigations :
        \E j \in DOMAIN risks : additional_mitigations[i].risk_id = <<risks[j]["id"]>>

\* the reminders sent to user u on a date
RemindersOn(u, date) == {i \in DOMAIN sent : sent[i] = [user |-> u, date |-> date]}

\* C19: a subscriber whose last_notification is today's date is sent no
\* reminder, and no subscriber is sent more than one reminder on one date,
\* however many times send_daily_reminder runs on it.
C19_OneReminderPerDate ==
    [][/\ \A outcome \in ReminderOutcomes :
             (/\ send_daily_reminder_next(outcome)
              /\ subscriptions[job.batch[Len(job.done) + 1]][1].last_notification = <<today>>)
             => sent' = sent
       /\ \A i \in DOMAIN sent' : Cardinality({j \in DOMAIN sent' : sent'[j] = sent'[i]}) <= 1]_vars

\* C20: a failure for one subscriber does not end the batch: a run of
\* send_daily_reminder is over only when every subscriber it found has been
\* gone through, and what happens to one subscriber changes nothing for
\* another.
C20_FailureDoesNotAbortBatch ==
    [][/\ (job.active /\ ~job'.active) => Len(job.done) = Len(job.batch)
       /\ \A outcome \in ReminderOutcomes :
             send_daily_reminder_next(outcome)
             => \A u \in DOMAIN subscriptions :
                    u # job.batch[Len(job.done) + 1]
                    => subscriptions'[u] = subscriptions[u] /\ screen'[u] = screen[u]]_vars

\* in one run the first subscriber's delivery failed and the second was reminded
C20_Witness ==
    /\ Len(job.batch) = 2
    /\ Len(job.done) = 2
    /\ job.done[1] \in {"select_failed", "send_failed", "store_failed"}
    /\ job.done[2] = "ok"
    /\ RemindersOn(job.batch[2], today) # {}

\* the subscriber the next pass of the loop of send_daily_reminder is for
NextSubscriber == job.batch[Len(job.done) + 1]

\* C21: send_daily_reminder sets a subscriber's last_notification, to today's
\* date, only in a pass that has sent the reminder to that subscriber; a pass
\* in which the delivery raises leaves last_notification as it was, and a
\* later pass on the same date in which the delivery succeeds sends the
\* reminder.
C21_DateRecordedAfterSend ==
    [][\A outcome \in ReminderOutcomes :
          send_daily_reminder_next(outcome)
          => LET u == NextSubscriber
                 before == subscriptions[u][1].last_notification
             IN  /\ subscriptions'[u] # subscriptions[u]
                    => /\ subscriptions'[u][1].last_notification = <<today>>
                       /\ sent' = Append(sent, [user |-> u, date |-> today])
                 /\ (outcome = "send_failed" /\ before # <<today>>)
                    => subscriptions' = subscriptions /\ sent' = sent
                 /\ (outcome = "ok" /\ before # <<today>>)
                    => sent' = Append(sent, [user |-> u, date |-> today])]_vars

\* a pass of the loop in which the delivery raised has left the subscriber
\* without a recorded date and without a reminder
C21_Witness ==
    /\ job.active
    /\ \E i \in DOMAIN job.done :
          /\ job.done[i] = "send_failed"
          /\ subscriptions[job.batch[i]][1].last_notification # <<today>>
          /\ RemindersOn(job.batch[i], today) = {}

\* C22: no coroutine waits for db_lock on the event loop: send_daily_reminder
\* and the handlers reach db_lock only when no coroutine suspended on a
\* transport call holds it, so the thread never blocks in the acquire behind a
\* holder that cannot resume.
C22_NeverBlockedOnLock == ~LoopBlocked

\* a step of the application for user u: a command, a button press (back
\* navigation included) or a text message (the commit included)
StepOf(u) ==
    \/ \E c \in CommandsPair(u) : start(u)
    \/ \E tok \in PressablePair(u) : on_callback_listed(u, tok)
    \/ \E m \in TextOffersPair(u) : handle_text_listed(u, m)

\* C23: a step executed for one user leaves every field and every awaiting
\* marker of the other user's draft unchanged, whatever steps the two users
\* have taken before.
C23_DraftsIndependent ==
    [][\A u \in PairUsers :
          StepOf(u) => \A v \in PairUsers \ {u} : user_data'[v] = user_data[v]]_vars

\* the first user's draft has been committed while the second user holds a
\* draft with a description and a schedule triple
C23_Witness ==
    /\ Len(risks) = 1
    /\ risks[1]["user_id"] = 1
    /\ user_data[2]["description"] # <<>>
    /\ user_data[2]["impact_schedule_max"] # <<>>
    /\ user_data[2] # user_data[1]

BackToScheduleImpact == [h |-> "back_to_", a |-> <<"schedule_impact">>]

\* the keys the branch back_to_schedule_impact of handle_back is said to unset
ScheduleImpactKeys ==
    {"impact_schedule_min", "impact_schedule_most_likely", "impact_schedule_max",
     "needs_schedule_evaluation", "awaiting_schedule_values"}

\* C24: the back action to the schedule impact step unsets
\* impact_schedule_min, impact_schedule_most_likely, impact_schedule_max,
\* needs_schedule_evaluation and awaiting_schedule_values and leaves every
\* other key of the draft, phase, object, category and description among
\* them, as it was.
C24_BackToScheduleUnsetsExactly ==
    [][\A u \in Users :
          handle_back(u, BackToScheduleImpact)
          => /\ \A k \in ScheduleImpactKeys : user_data'[u][k] = <<>>
             /\ \A k \in Keys \ ScheduleImpactKeys : user_data'[u][k] = user_data[u][k]]_vars

\* the user has gone back to the schedule impact step from a draft whose
\* schedule step had been entered
C24_Witness ==
    \E u \in Users :
        /\ screen[u] = BackPrompt(user_data[u], "schedule_impact", TRUE)
        /\ screen[u] # schedule_prompt(TRUE)
        /\ \A k \in {"phase", "object", "category", "description"} : user_data[u][k] # <<>>
        /\ \A k \in ScheduleImpactKeys : user_data[u][k] = <<>>

\* the prompts the handlers of the forward path render on arriving at the
\* step of a return point, from the draft d
ForwardPrompts(d, point, subscribed) ==
    CASE point = "menu" -> {welcome_prompt(TRUE, subscribed)}
      [] point = "phase_selection" -> {phase_prompt}
      [] point = "object_selection" -> {object_prompt(d["phase"])}
      [] point = "category_selection" ->
            {category_prompt(d["object"], "svoy"), category_prompt(d["object"], "svoyu")}
      [] point = "description" -> {description_prompt(d["category"])}
      [] point = "schedule_impact" -> {schedule_prompt(TRUE)}
      [] point = "cost_impact" -> {cost_prompt(TRUE), cost_prompt(FALSE)}
      [] point = "probability" -> {probability_prompt("50-75%")}
      [] point = "timeline" -> {timeline_prompt}
      [] point = "mitigation_choice" -> {mitigation_choice_prompt}
      [] point = "mitigation" -> {mitigation_prompt}
      [] point = "mitigation_result" -> {expected_result_prompt}
      [] point = "schedule_impact_re" -> {schedule_re_prompt(TRUE)}
      [] point = "cost_impact_re" -> {cost_re_prompt}
      [] point = "probability_re" -> {probability_re_prompt}

\* C25: for every return point, the prompt the back action renders, its text
\* and its ordered list of options (label, token), is the prompt rendered when
\* the same step is reached on the forward path.
C25_BackRendersForwardPrompt ==
    [][\A u \in Users : \A tok \in BackTokens :
          handle_back(u, tok)
          => screen'[u] \in ForwardPrompts(user_data'[u], tok.a[1],
                                           is_subscribed(subscriptions', u))]_vars

\* C26: a second back_to_schedule_impact right after the first changes
\* nothing: the draft the first one leaves is the draft a second one would
\* leave, and the prompt and options a second one would render are those the
\* first has rendered, whatever step the first was invoked from.
C26_BackToScheduleIdempotent ==
    [][\A u \in Users :
          handle_back(u, BackToScheduleImpact)
          => LET once == user_data'[u]
                 twice == BackData(once, "schedule_impact")
             IN  /\ twice = once
                 /\ BackPrompt(PopAll(once, BackPops("schedule_impact")), "schedule_impact",
                               is_subscribed(subscriptions', u)) = screen'[u]]_vars

\* the back action has brought the user to the schedule impact step with the
\* cost step not yet answered
C26_Witness ==
    \E u \in Users :
        /\ screen[u] = schedule_prompt(FALSE)
        /\ user_data[u]["description"] # <<>>
        /\ user_data[u]["impact_cost_max"] = <<>>
        /\ BackData(user_data[u], "schedule_impact") = user_data[u]

\* the bucket of x in a table of four ascending thresholds, each bucket
\* half-open with its lower threshold inside
Bucket(x, table) == 1 + Cardinality({i \in DOMAIN table : table[i] <= x})

\* C27: for every integer, negative ones included, get_cost_score,
\* get_schedule_score and get_probability_score return the bucket of the
\* tables 100/200/500/1000, 14/45/90/150 and 10/20/50/75, a boundary value
\* falling in the higher bucket; each result is in 1..5 and no smaller than
\* the result for any smaller input.
C27_ScoresAreBuckets ==
    \A u \in Users :
        pc[u].at = "return"
        => LET x == pc[u].row[1]
           IN  /\ pc[u].row[2] = Bucket(x, <<100, 200, 500, 1000>>)
               /\ pc[u].row[3] = Bucket(x, <<14, 45, 90, 150>>)
               /\ pc[u].row[4] = Bucket(x, <<10, 20, 50, 75>>)
               /\ \A i \in 2..4 : pc[u].row[i] \in 1..5
               /\ \A y \in ScoreInputs :
                     y <= x => /\ get_cost_score(y) <= pc[u].row[2]
                               /\ get_schedule_score(y) <= pc[u].row[3]
                               /\ get_probability_score(y) <= pc[u].row[4]

\* the functions have returned for the boundary value 100 of the cost table
C27_Witness ==
    \E u \in Users :
        /\ pc[u].at = "return"
        /\ pc[u].row = <<100, 2, 4, 5>>

\* C28: the risk_score of every committed record is the plain sum of its
\* cost, schedule and probability scale values, each counted once, and is an
\* integer from 3 to 15.
C28_ScoreIsUnweightedSum ==
    \A i \in DOMAIN risks :
        LET row == risks[i]
            scales == << get_cost_score(row["impact_cost_most_likely"]),
                         get_schedule_score(row["impact_schedule_most_likely"]),
                         get_probability_score(row["probability"]) >>
        IN  /\ \A j \in DOMAIN scales : scales[j] \in 1..5
            /\ row["risk_score"] = scales[1] + scales[2] + scales[3]
            /\ row["risk_score"] \in 3..15

\* a record at the top of the range: every scale value is 5
C28_Witness ==
    \E i \in DOMAIN risks :
        /\ risks[i]["risk_score"] = 15
        /\ risks[i]["impact_cost_most_likely"] = 1000
        /\ risks[i]["probability"] = 80

\* the value the claim gives for each enumerated probability band
BandValues == <<10, 15, 27, 47, 60>>

\* C29: choosing the enumerated probability band k stores 10, 15, 27, 47 or
\* 60 for k = 1..5, in probability at the probability step and in
\* probability_re at the re-evaluation step, from the same table, which is
\* not the table of the scoring thresholds.
C29_BandStoresLookupValue ==
    [][\A u \in Users : \A k \in DOMAIN BandValues :
          /\ choose_probability(u, [h |-> "prob_", a |-> py_str(<<k>>)])
             => user_data'[u]["probability"] = <<BandValues[k]>>
          /\ \A ok \in DbOutcomes :
                choose_probability_re(u, [h |-> "prob_re_", a |-> py_str(<<k>>)], ok)
                => /\ user_data'[u]["probability_re"] = <<BandValues[k]>>
                   /\ Len(risks') > Len(risks)
                      => risks'[Len(risks')]["probability_re"] = BandValues[k]]_vars

\* a record whose probability came from band 3 and whose re-evaluated
\* probability came from band 4
C29_Witness ==
    \E i \in DOMAIN risks :
        /\ risks[i]["probability"] = 27
        /\ risks[i]["probability_re"] = 47
        /\ risks[i]["reevaluation_needed"] = 1

\* the triple of a record under three keys
TripleOf(row, kmin, kml, kmax) == <<row[kmin], row[kml], row[kmax]>>

\* C30: on a first submission along the forward path each step stores the
\* value it is given, no later step before the first call of save_risk
\* changes a value already given, and the committed record holds the draft's
\* values, with 0 for every number no step has given; with the schedule deferred to an expert, the cost triple
\* 100/300/900, the typed probability 80 and no re-evaluation the record has
\* needs_schedule_evaluation = 1, the schedule triple (0, 0, 0),
\* reevaluation_needed = 0 and risk_score = 1 + 3 + 5 = 9.
C30_RecordHoldsGivenValues ==
    [][\A u \in Users :
          LET d == user_data[u]
              e == user_data'[u]
          IN  /\ request_schedule_evaluation(u, [h |-> "request_schedule_evaluation", a |-> <<>>])
                 => /\ e["needs_schedule_evaluation"] = <<1>>
                    /\ \A k \in ScheduleKeys : e[k] = <<0>>
              /\ handle_cost_values(u, <<"1", "0", "0", " ", "3", "0", "0", " ", "9", "0", "0">>)
                 => /\ e["impact_cost_min"] = <<100>>
                    /\ e["impact_cost_most_likely"] = <<300>>
                    /\ e["impact_cost_max"] = <<900>>
              /\ handle_custom_probability(u, <<"8", "0">>) => e["probability"] = <<80>>
              /\ add_mitigation_without_evaluation(u, [h |-> "add_mitigation_without_evaluation",
                                                      a |-> <<>>])
                 => e["reevaluation_needed"] = <<0>>
              /\ d["risk_score"] = <<>>
                 => \A k \in DraftKeys \ {"risk_score"} : d[k] # <<>> => e[k] = d[k]
              /\ (Len(risks) = 0 /\ Len(risks') = 1)
                 => LET row == risks'[1]
                    IN  /\ \A k \in TextKeys : row[k] = e[k] /\ e[k] # <<>>
                        /\ \A k \in IntColumns : row[k] = Get(e, k, 0)
                        /\ row["reevaluation_needed"] = 0
                           => \A k \in ScheduleReKeys \cup CostReKeys
                                       \cup {"probability_re", "needs_schedule_evaluation_re",
                                             "needs_cost_evaluation_re"} : row[k] = 0
                        /\ (/\ row["needs_schedule_evaluation"] = 1
                            /\ TripleOf(row, "impact_cost_min", "impact_cost_most_likely",
                                        "impact_cost_max") = <<100, 300, 900>>
                            /\ row["probability"] = 80
                            /\ row["reevaluation_needed"] = 0)
                           => /\ TripleOf(row, "impact_schedule_min",
                                          "impact_schedule_most_likely",
                                          "impact_schedule_max") = <<0, 0, 0>>
                              /\ row["risk_score"] = 9]_vars

\* the record of the claim's example: schedule deferred, cost 100/300/900,
\* probability 80, no re-evaluation
C30_Witness ==
    /\ Len(risks) = 1
    /\ risks[1]["needs_schedule_evaluation"] = 1
    /\ TripleOf(risks[1], "impact_schedule_min", "impact_schedule_most_likely",
                "impact_schedule_max") = <<0, 0, 0>>
    /\ TripleOf(risks[1], "impact_cost_min", "impact_cost_most_likely",
                "impact_cost_max") = <<100, 300, 900>>
    /\ risks[1]["probability"] = 80
    /\ risks[1]["reevaluation_needed"] = 0
    /\ risks[1]["risk_score"] = 9

\* the texts of a page of the list
ListTexts == {"Spisok riskov ({phase_text}, stranica {page}/{total_pages}):",
              "Spisok vseh riskov ({phase_text}):"}

ShowsList(u) == screen[u].text.id \in ListTexts

Matching(selected_phase) ==
    order_by_risk_score_desc(
        IF selected_phase = <<"all">> THEN risks
        ELSE SelectSeq(risks, LAMBDA row : row["phase"] = <<selected_phase>>))

\* C36: when a phase filter is selected and the queries succeed, the list
\* shown is the first page of that filter whatever page was viewed before, and
\* it is not empty when a stored risk matches the filter.
C36_FilterShowsFirstPage ==
    [][\A u \in Users : \A tok \in PressableView(u) :
          (view_risks_list(u, tok, TRUE) /\ Matching(tok.a) # <<>>)
          => /\ ShowsList(u)'
             /\ screen'[u].text.arg.risks
                  = [i \in DOMAIN limit_offset(Matching(tok.a), MAX_RISKS_PER_MESSAGE, 0) |->
                        listed(Matching(tok.a)[i])]]_vars

\* the button of the following page on the list a user sees
NextButtons(u) ==
    {i \in DOMAIN screen[u].options :
        /\ screen[u].options[i].label = <<"Dalee">>
        /\ screen[u].options[i].tok.h = "view_risks_page_"}

\* C37: pressing the button of the following page that view_risks_list built
\* for page p of a filter f stores view_risks_page = p + 1 and
\* selected_view_phase = f, and the list shown is then page p + 1 of f.
C37_PageTokenRoundTrip ==
    [][\A u \in Users :
          ShowsList(u) =>
              \A i \in NextButtons(u) :
                  (\E ok \in DbOutcomes : handle_view_risks_page(u, screen[u].options[i].tok, ok))
                  => /\ user_data'[u]["view_risks_page"] = <<screen[u].text.arg.page[1] + 1>>
                     /\ user_data'[u]["selected_view_phase"] = <<screen[u].text.arg.phase>>]_vars

\* the awaiting_* markers that are true in the data d
Awaited(d) == {k \in AwaitingKeys : Truthy(d, k)}

\* C32: in every reachable state at most one awaiting_* marker of a user's
\* session is true.
C32_AtMostOneAwaited == \A u \in Users : Cardinality(Awaited(user_data[u])) <= 1

\* the add-mitigation sub-flow awaits its action text or its expected result
AwaitsMitigationText(d) ==
    \/ Truthy(d, "awaiting_mitigation_for_existing_risk")
    \/ Truthy(d, "awaiting_expected_result_for_mitigation")

\* C33: while the add-mitigation sub-flow awaits a text, the next text message
\* changes no field of the risk draft and commits no risk record, and a text
\* awaited as the action is stored as new_mitigation.
C33_MitigationTextStaysInSubflow ==
    [][\A u \in Users : \A m \in Words :
          (AwaitsMitigationText(user_data[u]) /\ handle_text_mitigation(u, m))
          => /\ \A k \in DraftKeys : user_data'[u][k] = user_data[u][k]
             /\ risks' = risks
             /\ Truthy(user_data[u], "awaiting_mitigation_for_existing_risk")
                  => user_data'[u]["new_mitigation"] = <<m>>]_vars

\* C34: when two invocations of send_daily_reminder overlap, no subscriber is
\* sent two reminders on the same date.
C34_OverlapSendsOnce ==
    \A u \in ReminderUsers : \A date \in 1..MaxDays :
        Cardinality({i \in DOMAIN sent : sent[i] = [user |-> u, date |-> date]}) <= 1

\* C35: a user who unsubscribes, by the command or by the toggle, is absent
\* from get_subscribed_users; start leaves a user who has just unsubscribed
\* unsubscribed; and no invocation of send_daily_reminder turns to sending a
\* reminder to a user who is not subscribed.
C35_UnsubscribedStaysOut ==
    [][/\ \A u \in ReminderUsers :
             /\ (\/ unsubscribe(u)
                 \/ /\ is_subscribed(subscriptions, u)
                    /\ \E tok \in Offered(u) : toggle_subscription(u, tok))
                => \A i \in DOMAIN get_subscribed_users(subscriptions') :
                       get_subscribed_users(subscriptions')[i] # u
             /\ (screen[u] = unsubscribed_prompt /\ start(u))
                => ~is_subscribed(subscriptions', u)
       /\ \A i \in Invocations :
             (job'[i].active /\ job'[i] # job[i])
             => is_subscribed(subscriptions', suspended_for(job'[i]))]_vars

\* save_risk has been reached: the record is stored or the failure is reported
SaveRiskReached ==
    \/ Len(risks) > 0
    \/ \E u \in Users : screen[u] = save_failed_prompt

\* C38: from every step of a submission, a user who keeps answering the
\* displayed prompt with valid input reaches save_risk.
C38_SubmissionReachesCommit ==
    (\E u \in Users : screen[u] # NoPrompt) ~> SaveRiskReached

\* a record committed by a user who typed the schedule figures and the probability
C38_Witness ==
    /\ Len(risks) = 1
    /\ risks[1]["impact_schedule_most_likely"] = 20
    /\ risks[1]["probability"] = 80
    /\ \E u \in Users : screen[u] = saved_prompt

\* the scale of the probability of band k = 1..5
BandScores == <<2, 2, 3, 3, 4>>

\* the draft's probability was typed at the custom prompt, whose marker the
\* accepting handler has set to False, or no step has stored one
TypedOrNeverSet(d) == d["awaiting_custom_probability"] = <<FALSE>> \/ d["probability"] = <<>>

\* C39: a probability chosen from the enumerated bands scores 2, 2, 3, 3, 4
\* for the bands 1..5; only a band press or an accepted custom number stores
\* a probability; a record committed with probability scale 1 or 5, or with
\* composite score 3 or 15, comes from a draft whose probability was typed
\* as a custom number or was never set.
C39_BandsScoreTwoToFour ==
    [][\A u \in Users :
          LET d == user_data[u]
              e == user_data'[u]
          IN  /\ \A k \in DOMAIN BandScores :
                    choose_probability(u, [h |-> "prob_", a |-> py_str(<<k>>)])
                    => /\ e["probability"] # <<>>
                       /\ get_probability_score(e["probability"][1]) = BandScores[k]
              /\ (e["probability"] # d["probability"] /\ e["probability"] # <<>>)
                 => \/ \E k \in DOMAIN BandScores :
                          choose_probability(u, [h |-> "prob_", a |-> py_str(<<k>>)])
                    \/ /\ d["awaiting_custom_probability"] = <<TRUE>>
                       /\ e["awaiting_custom_probability"] = <<FALSE>>
              /\ (Committed /\ Committer = u)
                 => LET row == risks'[Len(risks')]
                    IN  /\ row["probability"] = Get(d, "probability", 0)
                        /\ row["risk_score"] = get_cost_score(row["impact_cost_most_likely"])
                                               + get_schedule_score(row["impact_schedule_most_likely"])
                                               + get_probability_score(row["probability"])
                        /\ (\/ get_probability_score(row["probability"]) \in {1, 5}
                            \/ row["risk_score"] \in {3, 15})
                           => TypedOrNeverSet(d)]_vars

\* a record whose probability came from band 5: scale 4, and with cost and
\* schedule at the top of their scales the composite score is 14, not 15
C39_Witness ==
    \E i \in DOMAIN risks :
        /\ risks[i]["probability"] = 60
        /\ risks[i]["impact_cost_most_likely"] = 1000
        /\ risks[i]["impact_schedule_most_likely"] = 1000
        /\ risks[i]["risk_score"] = 14

====
